---- MODULE Spec2Model ----
(***************************************************************************)
(* Verification model of the FLIP7 DEALR firmware (Flip7DealerMain).       *)
(*                                                                         *)
(* The module holds several specifications over one set of variables:      *)
(*   SpecClassifier  colorRead / checkForColorSpike fed with sensor samples *)
(*   SpecSpike       checkForColorSpike fed with brightness sequences       *)
(*   SpecDispense    dealSingleCard: the dispensing pipeline, one loop      *)
(*                   iteration of cardDispensingActions per step            *)
(*   SpecDeal        the main loop: checkState ticks and button dispatch    *)
(*                   over a turntable carrying a ring of tags               *)
(* Each specification leaves the variables of the other parts unchanged.   *)
(***************************************************************************)
EXTENDS Integers, Sequences, FiniteSets, TLC

(***************************************************************************)
(* Program constants                                                       *)
(***************************************************************************)
debounceCount == 3

errorTimeout == 6000

throwExpiration == 4000

reverseFeedTime == 400

\* const debounceInterval of pollCraw
debounceInterval == 40

\* static retractDuration of handleThrowingTimeout
retractDuration == 1000

\* the settle time of slide step 3
stopSettleTime == 100

\* uint8_t arithmetic (stableColorCount, amount, remainingRoundsToDeal)
Uint8Mod == 256

\* millis() arithmetic is unsigned: a difference taken with the later stamp
\* first wraps to a value above every duration of the program.  The modulus
\* 2^30 stands for 2^32, the wrapped values keep that property.
UnsignedMod == 1073741824

\* feedCard.write positions: forward, reverse, neutral
FeedForward == 150

FeedReverse == 30

FeedNeutral == 90

(***************************************************************************)
(* Bounds of the model                                                     *)
(***************************************************************************)
\* number of tag identities of the classifier model (background 0
\* included); the firmware is built with TOTAL_COLORS = 9
NumIdentities == 3

\* cap of the observed run length of identical raw classifications
MaxRun == 6

\* number of brightness samples kept by the spike scenario
MaxSamples == 7

\* largest number of cards requested from one dispensing operation
MaxCards == 2

\* number of dispensing operations of one behaviour
MaxDeals == 2

\* the clock of the dispensing model stops at MaxTicks * ClockGrain ms
MaxTicks == 13

\* largest number of rounds a game requests from the main deal
MaxRounds == 2

\* number of button events of one behaviour of the deal model
MaxPresses == 1

\* number of abnormal events of one behaviour: a wait longer than
\* errorTimeout between two ticks or inside a fine adjustment, a jammed card
MaxFaults == 1

\* the clock of the deal model stops at MaxDealTicks * ClockGrain ms
MaxDealTicks == 40

ClockGrain == 500

Identities == 0 .. (NumIdentities - 1)

(***************************************************************************)
(* Sensor inputs                                                           *)
(***************************************************************************)
\* raw (r, g, b) readings of sensor.getRawData: near black, near red, near
\* yellow, between red and yellow, and an all-zero reading
RawRGB ==
  { <<23, 60, 19>>, <<60, 52, 15>>, <<36, 78, 12>>, <<48, 65, 13>>, <<0, 0, 0>> }

\* brightness (c channel) readings
Brightness == {63, 64}

\* brightness readings of the spike scenario
ScenarioBrightness == {10, 11, 62, 63, 64}

\* calibrated background brightness values (colors[0].avgC)
Baselines == {40, 118}

ClassifierBaselines == {40}

\* time that passes between two iterations of the dispensing loop (ms)
Elapse == {0, ClockGrain, 4 * ClockGrain}

\* milliseconds by which the millis() of prepareForDeal is later than the
\* millis() cardDispensingActions took just before calling it
Skew == {0, 1}

\* a wait of the deal model that exceeds errorTimeout
LongWait == 13 * ClockGrain

\* time that passes between two iterations of loop()
TickElapse == {0, LongWait}

\* duration of the blocking loop of fineAdjustCheck
AdjustElapse == {0, LongWait}

\* NUM_PLAYER_COLORS
NumPlayerColors == 8

\* gameRegistry.getGameCount(): one game is registered
totalGames == 1

numToolMenus == 4

\* brightness (c) read over a tag and over the background
TagBrightness == 100

GapBrightness == 10

\* the ring of the scenario: the reference tag and players 2, 5, 3, 7
ScenarioRing == <<1, 2, 5, 3, 7>>

\* the tables of the model: the tags in clockwise order, identity 1 being
\* the reference (red) tag, and the gap the sensor starts in (the one that
\* follows tag pos clockwise).  A lone reference tag, no reference tag,
\* three tags and the ring of the scenario
Tables ==
  { [tags |-> <<1>>, pos |-> 1],
    [tags |-> <<2, 3>>, pos |-> 1],
    [tags |-> <<1, 3, 2>>, pos |-> 1],
    [tags |-> <<1, 3, 2>>, pos |-> 2],
    [tags |-> ScenarioRing, pos |-> 1],
    [tags |-> ScenarioRing, pos |-> 2] }

VARIABLES
  \* ---- colour classifier (colorRead and its statics) ----
  colorBuffer,        \* uint8_t colorBuffer[debounceCount]
  bufferIndex,        \* static uint8_t bufferIndex
  stableColorCount,   \* static uint8_t stableColorCount
  stableColor,        \* uint8_t stableColor
  activeColor,        \* uint8_t activeColor
  blackBaseline,      \* static blackBaseline of calculateBlackBaseline
  rawC,               \* c of the last sample read by colorRead
  closestColor,       \* closestColor of the last colorRead
  \* ---- the flag structs (Enums.h) ----
  flags1, flags2, flags3, flags4, flags5,
  \* ---- dispensing pipeline ----
  slideStep,          \* int8_t slideStep
  previousSlideStep,  \* int8_t previousSlideStep
  amount,             \* uint8_t amount of dealSingleCard, passed by reference
  cardInCraw,         \* bool cardInCraw (TRUE = HIGH = beam free)
  previousCardInCraw, \* bool previousCardInCraw
  throwStart,         \* unsigned long throwStart
  retractStartTime,   \* unsigned long retractStartTime
  retractStarted,     \* static retractStarted of handleThrowingTimeout
  retractCompleted,   \* static retractCompleted of handleThrowingTimeout
  lastStepTime,       \* static lastStepTime of slideCard
  lastDebounceTime,   \* static lastDebounceTime of pollCraw
  consecutiveDeals,   \* static consecutiveDeals of dealSingleCard
  feedCard,           \* position written to the feed servo
  flywheel,           \* flywheel motor: "off", "forward", "reverse"
  \* ---- orchestrator ----
  currentDealState,   \* dealState currentDealState
  currentDisplayState, \* displayState currentDisplayState
  currentToolsMenu,   \* int8_t currentToolsMenu
  previousDealState,  \* dealState previousDealState
  previousActiveColor, \* uint8_t previousActiveColor
  colorStatus,        \* int8_t colorStatus[NUM_PLAYER_COLORS]
  colorLeftOfDealer,  \* int8_t colorLeftOfDealer
  initialRoundsToDeal, \* uint8_t initialRoundsToDeal
  remainingRoundsToDeal, \* uint8_t remainingRoundsToDeal
  postCardsToDeal,    \* int8_t postCardsToDeal
  currentGame,        \* int8_t currentGame
  currentGamePtr,     \* Game* currentGamePtr: "nullptr" or "game"
  turnsToAdvance,     \* uint8_t Game::turnsToAdvance
  stopped,            \* bool stopped (yaw motor)
  yaw,                \* what the pins of the yaw motor drive: "off", "cw", "ccw"
  initializationStart, \* unsigned long initializationStart
  adjustStart,        \* unsigned long adjustStart
  \* ---- environment ----
  now,                \* millis()
  tags,               \* identities of the tags on the table, clockwise
  pos,                \* the sensor is over tag pos, or in the gap that
                      \* follows tag pos clockwise
  onTag,              \* TRUE: over the tag, FALSE: in the gap
  game,               \* the registered game: [rounds, flip]
  loopPos,            \* 0 after checkState, i after checkButtons handled an
                      \* event of button i in this iteration of loop()
  hung,               \* a blocking loop of the firmware never returns
  \* ---- control position and observation ----
  pc,                 \* "loop": between operations, "dispensing": inside
                      \* the while loop of dealSingleCard, "returned"
  dispenseLog,        \* observation of the current dispensing operation
  dealLog,            \* observation of the current deal
  tickLog,            \* observation of the last checkState
  run,                \* [id, len]: current run of identical raw classifications
  cSeq,               \* brightness samples fed to checkForColorSpike
  flagSeq,            \* spike flag after each of these samples
  op,                 \* the operation that produced the current state
  \* ---- persistent storage and the colour table ----
  EEPROM,             \* the bytes of the EEPROM the firmware uses
  colors,             \* RGBColor colors[TOTAL_COLORS]
  storedUVThreshold,  \* uint16_t storedUVThreshold
  tuning,             \* position inside colorTuner / recordColors
  storeLog,           \* observation of the writes to the EEPROM
  \* ---- the FLIP7 game ----
  flip7,              \* the fields of the Flip7 object
  timeouts            \* unsigned long overallTimeoutTag and its observer

\* the variables only colorRead touches
sensorVars ==
  << colorBuffer, bufferIndex, stableColorCount, stableColor, blackBaseline,
     rawC, closestColor, run, cSeq, flagSeq >>

\* the variables the dispensing pipeline and the orchestrator work on
dealrVars ==
  << flags1, flags3, flags4, slideStep, previousSlideStep, amount,
     cardInCraw, previousCardInCraw, throwStart, retractStartTime,
     retractStarted, retractCompleted, lastStepTime, lastDebounceTime,
     consecutiveDeals, feedCard, flywheel, currentDealState,
     currentDisplayState, currentToolsMenu, now, pc, dispenseLog,
     previousDealState, previousActiveColor, colorStatus, colorLeftOfDealer,
     initialRoundsToDeal, remainingRoundsToDeal, postCardsToDeal,
     currentGame, currentGamePtr, turnsToAdvance, stopped, yaw,
     initializationStart, adjustStart, tags, pos, onTag, game, loopPos,
     hung, dealLog, tickLog, timeouts >>

\* persistent storage, the table loaded from it and the tuner that writes it
storeVars == << EEPROM, colors, storedUVThreshold, tuning, storeLog >>

vars ==
  << sensorVars, activeColor, flags2, flags5, dealrVars, op, storeVars,
     flip7 >>

(***************************************************************************)
(* Helpers                                                                 *)
(***************************************************************************)
Min(a, b) == IF a <= b THEN a ELSE b

Sq(x) == x * x

\* a - b of two unsigned long stamps
USub(a, b) == (a - b) % UnsignedMod

(***************************************************************************)
(* checkForColorSpike: float(c) >= float(blackBaseline) * 1.6.  For the    *)
(* 16-bit integers compared here the float product rounds to the exact     *)
(* value whenever 1.6 * blackBaseline is an integer, so the comparison is  *)
(* the integer comparison 10 c >= 16 blackBaseline.                        *)
(***************************************************************************)
AtOrAboveSpike(c, baseline) == 10 * c >= 16 * baseline

\* a threshold of 1.5 x the background instead of 1.6 x
checkForColorSpike_lowThreshold(c, baseline, exceeded, adjusting) ==
  IF ~exceeded /\ ~adjusting /\ 10 * c >= 15 * baseline THEN TRUE
  ELSE IF exceeded /\ 10 * c < 15 * baseline THEN FALSE
  ELSE exceeded

\* the value checkForColorSpike returns and stores in flags2.baselineExceeded
checkForColorSpike(c, baseline, exceeded, adjusting) ==
  IF ~exceeded /\ ~adjusting /\ AtOrAboveSpike(c, baseline) THEN TRUE
  ELSE IF exceeded /\ ~AtOrAboveSpike(c, baseline) THEN FALSE
  ELSE exceeded

(***************************************************************************)
(* Nearest centroid of colorRead.  normalizedX = x / total * 255; the      *)
(* squared distances are compared after multiplication by total^2, which   *)
(* keeps them integers.  With total = 0 every distance is NaN, no          *)
(* comparison succeeds and closestColor stays 0.                           *)
(***************************************************************************)
Distance(rgb, i) ==
  LET total == rgb[1] + rgb[2] + rgb[3]
  IN  Sq(255 * rgb[1] - colors[i].r * total)
    + Sq(255 * rgb[2] - colors[i].g * total)
    + Sq(255 * rgb[3] - colors[i].b * total)

RECURSIVE ClosestFrom(_, _, _)
\* the loop "for i = 1 .. TOTAL_COLORS - 1" with the running minimum best
ClosestFrom(rgb, i, best) ==
  IF i >= NumIdentities THEN best
  ELSE ClosestFrom(rgb, i + 1,
                   IF Distance(rgb, i) < Distance(rgb, best) THEN i ELSE best)

ClosestColor(rgb) ==
  IF rgb[1] + rgb[2] + rgb[3] = 0 THEN 0 ELSE ClosestFrom(rgb, 1, 0)

\* closestColor of every reading of the model, computed once
ClosestOf == [rgb \in RawRGB |-> ClosestColor(rgb)]

\* only the first buffer entry is compared
IsStable_firstOnly(buf, closest) == buf[1] = closest

\* isStable of colorRead: every buffered classification equals closestColor
IsStable(buf, closest) == \A i \in 1 .. debounceCount : buf[i] = closest

(***************************************************************************)
(* colorRead(blackBaseline) on one sensor sample (rgb, c)                  *)
(***************************************************************************)
colorRead(rgb, c) ==
  LET closest == ClosestOf[rgb]
      buf     == [colorBuffer EXCEPT ![bufferIndex + 1] = closest]
      stable  == IsStable(buf, closest)
      count   == IF stable THEN (stableColorCount + 1) % Uint8Mod ELSE 0
      newStableColor == IF stable THEN closest ELSE stableColor
  IN  /\ flags2' = [flags2 EXCEPT !.baselineExceeded =
           checkForColorSpike(c, blackBaseline, flags2.baselineExceeded,
                              flags5.adjustInProgress)]
      /\ colorBuffer' = buf
      /\ bufferIndex' = (bufferIndex + 1) % debounceCount
      /\ stableColor' = newStableColor
      /\ stableColorCount' = count
      /\ activeColor' = IF count >= debounceCount THEN newStableColor ELSE activeColor
      /\ rawC' = c
      /\ closestColor' = closest
      /\ run' = IF run.len > 0 /\ run.id = closest
                THEN [id |-> closest, len |-> Min(run.len + 1, MaxRun)]
                ELSE [id |-> closest, len |-> 1]

(***************************************************************************)
(* The FLIP7 game: the scoring part of Flip7::handleButtonPress.  flip7    *)
(* holds the fields of the game object.  The play of a round (DEALSPECIAL, *)
(* ACTION, PICK, PICKSPECIAL, PICKPLAYER) is taken as a whole: it ends in  *)
(* ENTERSCORE with some of the players marked bust.  moveToPlayer turns    *)
(* the table until the sensor reads the colour of the player; it does not  *)
(* return when that tag cannot be read any more (hung).                    *)
(***************************************************************************)
MaxPlayers == 2
MaxScoreRounds == 2
MaxScoreSteps == 4

minScore == 200
maxScore == 990
maxRoundScore == 171
NoWinner == 255
MAX_FLIP3_DEPTH == 4

Players == 0 .. (MaxPlayers - 1)

\* the indexes of returnPlayerStack
Depths == 0 .. (MAX_FLIP3_DEPTH - 1)

\* no entry of the return stack has been read in this press
NoPop == [depth |-> -1, read |-> NoWinner, pushed |-> NoWinner,
          arrived |-> NoWinner]

\* how many times in a row a score button is released
TenPresses == {1, 10, 17}
OnePresses == {1, 9}

\* Flip7::initialize and the initialisers of the fields
Flip7Initialize ==
  [gameState |-> "STARTUP", prevState |-> "REPORTSCORE",
   ScoretoWin |-> minScore, numPlayers |-> 0,
   playerScores |-> [i \in Players |-> 0],
   currentRoundScores |-> [i \in Players |-> 0],
   bust |-> [i \in Players |-> FALSE],
   currentPlayerIndex |-> 0, startPlayerIndex |-> 0,
   isDisplayingSelection |-> FALSE, isAdjScore |-> FALSE, adjSign |-> FALSE,
   exitRequested |-> FALSE, hung |-> FALSE,
   winner |-> NoWinner, tallied |-> FALSE, button |-> "none",
   steps |-> 0, rounds |-> 0,
   specialState |-> "NONE", displayedPlayerIndex |-> 0,
   isDealing |-> FALSE,
   active |-> [i \in Players |-> FALSE],   \* IS_ACTIVE of playerStatus
   dealt |-> [i \in Players |-> FALSE],    \* IS_DEALT of playerStatus
   stackPointer |-> -1,
   returnPlayerStack |-> [d \in Depths |-> 0],
   pushed |-> [d \in Depths |-> NoWinner], \* the player pushed at a depth
   pop |-> NoPop]                          \* the entry read in this press

\* the quotient and the remainder of C++ (truncation toward zero)
CDiv(a, b) == IF a >= 0 THEN a \div b ELSE -((-a) \div b)

CRem(a, b) == a - b * CDiv(a, b)

incrementScoreByTen(f, playerIndex) ==
  LET s == IF f.isAdjScore /\ f.adjSign
           THEN f.currentRoundScores[playerIndex] - 10
           ELSE f.currentRoundScores[playerIndex] + 10
  IN  [f EXCEPT !.currentRoundScores[playerIndex] =
         IF s > maxRoundScore \/ s < -maxRoundScore THEN 0 ELSE s]

cycleOnesDigit(f, playerIndex) ==
  LET score == f.currentRoundScores[playerIndex]
      tens == CDiv(score, 10) * 10
      ones == CRem(score, 10)
      ones1 == IF f.isAdjScore /\ f.adjSign
               THEN IF score > 0
                    THEN (IF ones > 0 THEN ones - 1 ELSE 9)
                    ELSE (IF ones > -9 THEN ones - 1 ELSE 0)
               ELSE IF score >= 0
                    THEN (ones + 1) % 10
                    ELSE (IF ones < 0 THEN ones + 1 ELSE -9)
      s == tens + ones1
  IN  [f EXCEPT !.currentRoundScores[playerIndex] =
         IF s > maxRoundScore \/ s < -maxRoundScore THEN tens ELSE s]

RECURSIVE Repeat(_, _, _)
Repeat(f, n, yellow) ==
  IF n = 0 THEN f
  ELSE Repeat(IF yellow THEN incrementScoreByTen(f, f.currentPlayerIndex)
              ELSE cycleOnesDigit(f, f.currentPlayerIndex),
              n - 1, yellow)

\* moveToPlayer(target); found: the tag of the player can be read
moveToPlayer(f, target, found) ==
  IF target >= f.numPlayers THEN f
  ELSE IF found THEN [f EXCEPT !.currentPlayerIndex = target]
  ELSE [f EXCEPT !.hung = TRUE]

\* the players moveToNextunBustedPlayer looks at, in its order
SearchOrder(f, startIndex) ==
  [i \in 1 .. f.numPlayers |-> (startIndex + i) % f.numPlayers]

\* moveToNextunBustedPlayer(startIndex): the player found, or NoWinner
\* when it returns false (every registered player has IS_PLAYING set)
NextUnbusted(f, startIndex) ==
  LET order == SearchOrder(f, startIndex)
      hits == {i \in 1 .. f.numPlayers : ~f.bust[order[i]]}
  IN  IF hits = {} THEN NoWinner
      ELSE order[CHOOSE i \in hits : \A j \in hits : i <= j]

tallyScores(f) ==
  [f EXCEPT
     !.playerScores =
        [i \in Players |->
           IF i < f.numPlayers
           THEN IF @[i] + f.currentRoundScores[i] < 0 THEN 0
                ELSE @[i] + f.currentRoundScores[i]
           ELSE @[i]],
     !.currentRoundScores = [i \in Players |-> 0],
     !.tallied = TRUE]

\* a winner is taken whatever the score to win is
checkForWinner_first(f) == IF f.numPlayers > 0 THEN 0 ELSE NoWinner

RECURSIVE checkForWinnerFrom(_, _, _, _)
checkForWinnerFrom(f, i, winnerIndex, highestWinningScore) ==
  IF i >= f.numPlayers THEN winnerIndex
  ELSE IF f.playerScores[i] >= f.ScoretoWin
          /\ f.playerScores[i] > highestWinningScore
       THEN checkForWinnerFrom(f, i + 1, i, f.playerScores[i])
       ELSE checkForWinnerFrom(f, i + 1, winnerIndex, highestWinningScore)

checkForWinner(f) == checkForWinnerFrom(f, 0, NoWinner, 0)

(***************************************************************************)
(* The play of a round: the special cards FREEZE and FLIP3 and the stack   *)
(* of the players to return to after a FLIP3.  dispenseCards changes no    *)
(* field of the game object and is left out.                               *)
(***************************************************************************)
\* run the rest of a handler unless moveToPlayer did not return
IfReturned(x, Rest(_)) == IF x.hung THEN x ELSE Rest(x)

areActivePlayers(f) ==
  \E i \in Players : i < f.numPlayers /\ f.active[i]

areActiveandUndealt(f) ==
  \E i \in Players : i < f.numPlayers /\ f.active[i] /\ ~f.dealt[i]

\* the first k of ks, in increasing order, that satisfies Hit
FirstStep(ks, Hit(_)) ==
  LET hits == {k \in ks : Hit(k)}
  IN  IF hits = {} THEN -1
      ELSE CHOOSE k \in hits : \A j \in hits : k <= j

advanceToNextActivePlayer(f, found) ==
  IF f.numPlayers = 0 THEN f
  ELSE LET at(k) == (f.currentPlayerIndex + k) % f.numPlayers
           hit(k) == f.active[at(k)] \/ at(k) = f.currentPlayerIndex
       IN  moveToPlayer(f, at(FirstStep(1 .. f.numPlayers, hit)), found)

moveToFirstActivePlayer(f, found) ==
  IF ~areActivePlayers(f) THEN f
  ELSE LET at(k) == (f.startPlayerIndex + k) % f.numPlayers
           hit(k) == f.active[at(k)]
       IN  moveToPlayer(f, at(FirstStep(0 .. (f.numPlayers - 1), hit)),
                        found)

\* the do-while does not end when no active player is undealt
advanceNextActiveUndealtPlayer(f, found) ==
  LET at(k) == (f.currentPlayerIndex + k) % f.numPlayers
      hit(k) == f.active[at(k)] /\ ~f.dealt[at(k)]
      first == FirstStep(1 .. f.numPlayers, hit)
  IN  IF first = -1 THEN [f EXCEPT !.hung = TRUE]
      ELSE moveToPlayer(f, at(first), found)

dealOne(f) == [f EXCEPT !.dealt[f.currentPlayerIndex] = TRUE]

proceedDealing(f, found) ==
  LET deal(x) == [dealOne(x) EXCEPT !.gameState = "DEALSPECIAL"]
      act(x) == [x EXCEPT !.gameState = "ACTION", !.isDealing = FALSE]
  IN  IF areActiveandUndealt(f)
      THEN IfReturned(advanceNextActiveUndealtPlayer(f, found), deal)
      ELSE IfReturned(moveToFirstActivePlayer(f, found), act)

\* cycleActivePlayer: nextPlayerIndex, or NoWinner when it returns false
cycleActivePlayer(f, currentIndex, up) ==
  IF f.numPlayers = 0 THEN NoWinner
  ELSE LET at(k) == IF up THEN (currentIndex + k) % f.numPlayers
                    ELSE (currentIndex - k + f.numPlayers) % f.numPlayers
           hit(k) == f.active[at(k)]
           first == FirstStep(1 .. f.numPlayers, hit)
       IN  IF first = -1 THEN NoWinner ELSE at(first)

\* the stack grows whatever its depth is
flip3Push_unbounded(f) ==
  [f EXCEPT !.stackPointer = @ + 1,
            !.returnPlayerStack =
               [d \in DOMAIN @ |-> IF d = f.stackPointer + 1
                                   THEN f.currentPlayerIndex ELSE @[d]],
            !.pushed =
               [d \in DOMAIN @ |-> IF d = f.stackPointer + 1
                                   THEN f.currentPlayerIndex ELSE @[d]]]

\* "if (stackPointer < MAX_FLIP3_DEPTH - 1) { stackPointer++;
\*  returnPlayerStack[stackPointer] = currentPlayerIndex; }"
flip3Push(f) ==
  IF f.stackPointer < MAX_FLIP3_DEPTH - 1
  THEN [f EXCEPT !.stackPointer = @ + 1,
                 !.returnPlayerStack[f.stackPointer + 1] =
                    f.currentPlayerIndex,
                 !.pushed[f.stackPointer + 1] = f.currentPlayerIndex]
  ELSE f

\* "returnPlayer = returnPlayerStack[stackPointer]; stackPointer--;
\*  moveToPlayer(returnPlayer);"
flip3Pop(f, found) ==
  LET returnPlayer == f.returnPlayerStack[f.stackPointer]
      moved == moveToPlayer([f EXCEPT !.stackPointer = @ - 1,
                                      !.pushed[f.stackPointer] = NoWinner],
                            returnPlayer, found)
  IN  [moved EXCEPT !.pop = [depth |-> f.stackPointer,
                             read |-> returnPlayer,
                             pushed |-> f.pushed[f.stackPointer],
                             arrived |-> moved.currentPlayerIndex]]

\* PICK, RED with active players left and PICK, GREEN: back to the player of
\* the FLIP3, or on to the next player
pickProceed(f, found) ==
  LET pick(x) == [x EXCEPT !.gameState = "PICK"]
      act(x) == [x EXCEPT !.gameState = "ACTION"]
      onward(x) == IF x.isDealing THEN proceedDealing(x, found)
                   ELSE IfReturned(advanceToNextActivePlayer(x, found), act)
  IN  IF f.stackPointer >= 1 THEN IfReturned(flip3Pop(f, found), pick)
      ELSE IF f.stackPointer = 0
           THEN IfReturned(flip3Pop(f, found), onward)
           ELSE onward(f)

endRound(f) ==
  [f EXCEPT !.isDisplayingSelection = FALSE, !.isDealing = FALSE,
            !.gameState = "ENTERSCORE"]

\* PICKPLAYER, GREEN
pickPlayerGreen(f, found) ==
  LET act(x) == [x EXCEPT !.gameState = "ACTION"]
      pick(x) == [x EXCEPT !.gameState = "PICK"]
      frozen == [f EXCEPT !.isDisplayingSelection = FALSE,
                          !.specialState = "NONE",
                          !.active[f.displayedPlayerIndex] = FALSE]
      flipped == flip3Push([f EXCEPT !.isDisplayingSelection = FALSE,
                                     !.specialState = "NONE"])
  IN  IF ~f.isDisplayingSelection THEN f
      ELSE IF f.specialState = "FREEZE"
      THEN IF areActivePlayers(frozen)
           THEN IF frozen.stackPointer = -1
                THEN IF frozen.isDealing THEN proceedDealing(frozen, found)
                     ELSE IfReturned(
                            advanceToNextActivePlayer(frozen, found), act)
                ELSE pick(frozen)
           ELSE endRound(frozen)
      ELSE IF f.specialState = "FLIP3"
      THEN IfReturned(moveToPlayer(flipped, f.displayedPlayerIndex, found),
                      pick)
      ELSE [f EXCEPT !.isDisplayingSelection = FALSE]

\* Flip7::handleButtonPress for the states of the play
Flip7Play(f, button, found) ==
  CASE f.gameState = "DEALSPECIAL" ->
         CASE button = "RED" -> [f EXCEPT !.specialState = "NONE",
                                          !.prevState = "DEALSPECIAL",
                                          !.gameState = "PICKSPECIAL"]
           [] button = "GREEN" -> proceedDealing(f, found)
           [] OTHER -> f
    [] f.gameState = "ACTION" ->
         CASE button = "RED" -> [f EXCEPT !.gameState = "PICK"]
           [] button = "GREEN" ->
                LET stood == [f EXCEPT !.active[f.currentPlayerIndex] = FALSE]
                IN  IF areActivePlayers(stood)
                    THEN advanceToNextActivePlayer(stood, found)
                    ELSE [stood EXCEPT !.isDisplayingSelection = FALSE,
                                       !.gameState = "ENTERSCORE"]
           [] OTHER -> f
    [] f.gameState = "PICK" ->
         CASE button = "RED" ->
                LET out == [f EXCEPT !.active[f.currentPlayerIndex] = FALSE,
                                     !.bust[f.currentPlayerIndex] = TRUE]
                IN  IF areActivePlayers(out) THEN pickProceed(out, found)
                    ELSE endRound(out)
           [] button = "YELLOW" ->
                [f EXCEPT !.isDisplayingSelection = FALSE,
                          !.specialState = "NONE",
                          !.prevState = "PICK",
                          !.gameState = "PICKSPECIAL"]
           [] button = "BLUE" -> endRound(f)
           [] OTHER -> pickProceed(f, found)
    [] f.gameState = "PICKSPECIAL" ->
         CASE button = "RED" -> [f EXCEPT !.specialState = "NONE",
                                          !.isDisplayingSelection = FALSE,
                                          !.gameState = f.prevState]
           [] button = "YELLOW" -> [f EXCEPT !.specialState = "FREEZE",
                                             !.isDisplayingSelection = TRUE]
           [] button = "BLUE" -> [f EXCEPT !.specialState = "FLIP3",
                                           !.isDisplayingSelection = TRUE]
           [] OTHER ->
                IF f.specialState # "NONE"
                THEN [f EXCEPT !.isDisplayingSelection = FALSE,
                               !.displayedPlayerIndex = f.currentPlayerIndex,
                               !.gameState = "PICKPLAYER"]
                ELSE f
    [] f.gameState = "PICKPLAYER" ->
         CASE button = "RED" -> [f EXCEPT !.specialState = "NONE",
                                          !.isDisplayingSelection = FALSE,
                                          !.gameState = "PICKSPECIAL"]
           [] button \in {"YELLOW", "BLUE"} ->
                LET nextIndex == cycleActivePlayer(f, f.displayedPlayerIndex,
                                                   button = "BLUE")
                IN  IF nextIndex = NoWinner THEN f
                    ELSE [f EXCEPT !.displayedPlayerIndex = nextIndex,
                                   !.isDisplayingSelection = TRUE]
           [] OTHER -> pickPlayerGreen(f, found)
    [] OTHER -> f
(***************************************************************************)
(* Persistent storage.  The EEPROM is an array of bytes; EEPROM.put and    *)
(* EEPROM.get copy the bytes of an object, and the AVR stores a uint16_t   *)
(* low byte first.  Byte 0 is the version byte, RGBColor index occupies    *)
(* the sizeof(RGBColor) bytes from index * sizeof(RGBColor) + 1, the UV    *)
(* threshold the two bytes from UV_THRESHOLD_ADDR.                         *)
(***************************************************************************)
EEPROM_VERSION_ADDR == 0

EEPROM_VERSION == 1

\* struct RGBColor { uint16_t r, g, b, avgC; }
SizeofRGBColor == 8

TOTAL_COLORS == NumPlayerColors + 1

UV_THRESHOLD_ADDR == TOTAL_COLORS * SizeofRGBColor + 2

defaultUVThreshold == 11

\* the bytes the firmware reads or writes
EepromCells == 0 .. (UV_THRESHOLD_ADDR + 1)

defaultColors ==
  LET rows == << <<58, 149, 48, 118>>, <<121, 105, 29, 255>>,
                 <<73, 157, 25, 255>>, <<35, 132, 89, 255>>,
                 <<41, 173, 41, 255>>, <<54, 138, 63, 255>>,
                 <<53, 136, 66, 255>>, <<58, 108, 89, 255>>,
                 <<37, 108, 110, 255>> >>
  IN  [i \in 0 .. (TOTAL_COLORS - 1) |->
         [r |-> rows[i + 1][1], g |-> rows[i + 1][2],
          b |-> rows[i + 1][3], avgC |-> rows[i + 1][4]]]

\* EEPROM.put(addr, object): the object as its uint16_t words
EepromPut(e, addr, words) ==
  [a \in DOMAIN e |->
     IF a >= addr /\ a < addr + 2 * Len(words)
     THEN IF (a - addr) % 2 = 0
          THEN words[((a - addr) \div 2) + 1] % Uint8Mod
          ELSE words[((a - addr) \div 2) + 1] \div Uint8Mod
     ELSE e[a]]

\* EEPROM.get(addr, word) of one uint16_t
EepromGet(e, addr) == e[addr] + Uint8Mod * e[addr + 1]

\* the bytes of entry index leave their word boundary
writeColorToEEPROM_aligned(e, index, color) ==
  EepromPut(e, index * SizeofRGBColor,
            << color.r, color.g, color.b, color.avgC >>)

writeColorToEEPROM(e, index, color) ==
  EepromPut(e, index * SizeofRGBColor + 1,
            << color.r, color.g, color.b, color.avgC >>)

readColorFromEEPROM(e, index) ==
  LET addr == index * SizeofRGBColor + 1
  IN  [r |-> EepromGet(e, addr), g |-> EepromGet(e, addr + 2),
       b |-> EepromGet(e, addr + 4), avgC |-> EepromGet(e, addr + 6)]

loadColorsFromEEPROM(e) ==
  [i \in 0 .. (TOTAL_COLORS - 1) |-> readColorFromEEPROM(e, i)]

\* "for (int i = 0; i < TOTAL_COLORS; i++) writeColorToEEPROM(i, default)"
RECURSIVE writeDefaultColors(_, _)
writeDefaultColors(e, i) ==
  IF i >= TOTAL_COLORS THEN e
  ELSE writeDefaultColors(writeColorToEEPROM(e, i, defaultColors[i]), i + 1)

resetEEPROMToDefaults(e) ==
  [EepromPut(writeDefaultColors(e, 0), UV_THRESHOLD_ADDR,
             << defaultUVThreshold >>)
     EXCEPT ![EEPROM_VERSION_ADDR] = EEPROM_VERSION]

\* the defaults are written at every boot, whatever the version byte is
initializeEEPROM_everyBoot(e) == resetEEPROMToDefaults(e)

\* the defaults are written and the version byte is left as it was found
initializeEEPROM_unversioned(e) ==
  IF e[EEPROM_VERSION_ADDR] # EEPROM_VERSION
  THEN EepromPut(writeDefaultColors(e, 0), UV_THRESHOLD_ADDR,
                 << defaultUVThreshold >>)
  ELSE e

initializeEEPROM(e) ==
  IF e[EEPROM_VERSION_ADDR] # EEPROM_VERSION
  THEN [EepromPut(writeDefaultColors(e, 0), UV_THRESHOLD_ADDR,
                  << defaultUVThreshold >>)
          EXCEPT ![EEPROM_VERSION_ADDR] = EEPROM_VERSION]
  ELSE e

\* an erased chip
ErasedEEPROM == [a \in EepromCells |-> Uint8Mod - 1]

\* no entry of the table has been written
NoColor == [r |-> -1, g |-> -1, b |-> -1, avgC |-> -1]

NoWrites == [i \in 0 .. (TOTAL_COLORS - 1) |-> NoColor]

TuningOff == [phase |-> "off", i |-> 0, light |-> 0]

NewStoreLog ==
  [lastWrite |-> NoWrites,  \* last colour handed to writeColorToEEPROM
   matched |-> FALSE,       \* the last setup() found the expected version
   launches |-> 0]          \* tools started so far

\* the specifications that do not touch the storage: setup() has run on a
\* chip that holds the defaults
InitStoreLoaded ==
  /\ EEPROM = resetEEPROMToDefaults(ErasedEEPROM)
  /\ colors = defaultColors
  /\ storedUVThreshold = defaultUVThreshold
  /\ tuning = TuningOff
  /\ storeLog = NewStoreLog
  /\ flip7 = Flip7Initialize


(***************************************************************************)
(* The state after setup(): the flag structs are zeroed, the globals hold  *)
(* their initialisers.                                                     *)
(***************************************************************************)
Flags1Boot ==
  [rotatingCW |-> FALSE, rotatingCCW |-> FALSE, correctingCCW |-> FALSE,
   correctingCW |-> FALSE, dealInitialized |-> FALSE, throwingCard |-> FALSE,
   cardDealt |-> FALSE]

Flags2Boot ==
  [blinkingAnimationActive |-> FALSE, newDealState |-> FALSE,
   baselineExceeded |-> FALSE, fineAdjustCheckStarted |-> FALSE,
   initialAnimationComplete |-> FALSE, initialAnimationInProgress |-> FALSE]

Flags3Boot ==
  [cardLeftCraw |-> FALSE, notFirstRoundOfDeal |-> FALSE,
   buttonInitialization |-> FALSE, advanceOnePlayer |-> FALSE,
   gameOver |-> FALSE, postDeal |-> FALSE, insideDealrTools |-> FALSE]

Flags4Boot ==
  [toolsMenuActive |-> FALSE, rotatingBackwards |-> FALSE,
   postDealRemainderHandled |-> FALSE, fullExit |-> FALSE,
   gamesExit |-> FALSE, toolsExit |-> FALSE, errorInProgress |-> FALSE]

Flags5Boot ==
  [playerLeftOfDealerIdentified |-> FALSE, handlingFlipCard |-> FALSE,
   adjustInProgress |-> FALSE]

InitFlags ==
  /\ flags1 = Flags1Boot
  /\ flags2 = Flags2Boot
  /\ flags3 = Flags3Boot
  /\ flags4 = Flags4Boot
  /\ flags5 = Flags5Boot

InitClassifierState ==
  /\ colorBuffer = [i \in 1 .. debounceCount |-> 0]
  /\ bufferIndex = 0
  /\ stableColorCount = 0
  /\ stableColor = 0
  /\ activeColor = 0
  /\ rawC = 0
  /\ closestColor = 0

\* the observation of a dispensing operation requested for m cards, the
\* d-th operation of the behaviour
NewDispenseLog(m, d) ==
  [requested |-> m,       \* cards requested from the operation
   exitsCounted |-> 0,    \* exits counted by slide step 0 (amount--)
   beamExits |-> 0,       \* LOW-to-HIGH beam transitions pollCraw reported
   stepsRun |-> << >>,    \* slide steps 1, 2, 3 in the order they acted
   timedOut |-> FALSE,    \* the throw-timeout recovery ended the retract
   startedAt |-> 0,       \* millis() when the operation was requested
   deals |-> d]

InitDispenseState ==
  /\ slideStep = 0
  /\ previousSlideStep = -1
  /\ amount = 0
  /\ cardInCraw = TRUE
  /\ previousCardInCraw = TRUE
  /\ throwStart = 0
  /\ retractStartTime = 0
  /\ retractStarted = FALSE
  /\ retractCompleted = FALSE
  /\ lastStepTime = 0
  /\ lastDebounceTime = 0
  /\ consecutiveDeals = 0
  /\ feedCard = FeedNeutral
  /\ flywheel = "off"
  /\ now = 0
  /\ pc = "loop"
  /\ dispenseLog = NewDispenseLog(0, 0)

\* the observation of a deal: what the table and the pipeline were seen to do
\* since the game was selected
NewDealLog ==
  [confirms |-> [i \in 1 .. NumPlayerColors |-> 0],
                          \* sightings of each identity the fine adjustment
                          \* confirmed since the deal was initialised on the
                          \* reference tag
   lastConfirm |-> 0,     \* identity confirmed last (0: none yet)
   prevConfirm |-> 0,     \* identity confirmed before lastConfirm
   dispenses |-> 0,       \* dispensing operations run since the game started
   exits |-> 0,           \* beam exits of these operations
   jams |-> 0,            \* of these operations, ended by the throw timeout
   pressed |-> FALSE,     \* a button event was handled during the deal
   fatal |-> FALSE,       \* the missing-tag error is waiting for its reset
   confirmNow |-> 0,      \* identity confirmed by the last step (0: none)
   primaryNow |-> FALSE,  \* that confirmation was made in the primary deal:
                          \* initialised and not in post-deal
   dispensedNow |-> 0,    \* dispensing operations run by the last step
   raisedNow |-> FALSE,   \* the last step raised the missing-tag error
   hookNow |-> FALSE,     \* the last step called Game::_handleButtonPress
   reversedNow |-> FALSE, \* the last step called rotate for the direction
                          \* opposite to the one the yaw motor was driven in
   loops |-> 0,           \* blocking loops run on their own so far
   blindNow |-> FALSE,    \* the last step ran an iteration of a loop that does
                          \* not read flags4.errorInProgress while it was set
   abortedNow |-> FALSE,  \* the last step left a loop because it read
                          \* flags4.errorInProgress set
   turnedNow |-> FALSE,   \* the last step stopped the yaw motor and then
                          \* called rotate for the opposite direction
   mainDealEnds |-> 0,    \* calls of Game::_onMainDealEnd since the game
                          \* started, counted up to 2
   faults |-> 0,          \* abnormal events so far
   presses |-> 0,         \* button events so far
   flips |-> 0,           \* dispensing operations of handleFlipCard since
                          \* the game started, counted up to 2
   flipGapNow |-> FALSE,  \* the last step ran the dispensing operation of
                          \* handleFlipCard with the sensor off every tag
   flipBackNow |-> FALSE, \* the last step ended handleFlipCard stopped on
                          \* the tag the sensor was on when it began
   dealtAt |-> [i \in 1 .. Len(ScenarioRing) |-> 0],
                          \* beam exits with the sensor on the tag at place
                          \* i of the ring, each counted up to MaxConfirms
   dealtOff |-> 0]        \* beam exits with the sensor off every tag,
                          \* counted up to MaxConfirms

\* the sightings of an identity are counted up to MaxConfirms
MaxConfirms == MaxRounds + 2

NewTickLog ==
  [latchAtStart |-> FALSE,   \* flags4.errorInProgress when checkState began
   stateAtStart |-> "IDLE",  \* currentDealState when checkState began
   handler |-> "none",       \* the case the switch of checkState ran
   startedAt |-> 0,          \* millis() when checkState began
   deadline |-> "none",      \* the deadline it found exceeded: "init" in
                             \* initializeToRed, "adjust" in the fine adjust
   cleared |-> FALSE,        \* handleIdleState cleared the deal context
   exits |-> {}]             \* exit flags set when handleResetDealrState
                             \* began

\* globals of the orchestrator as their initialisers and setup() leave them
InitDealGlobals ==
  /\ previousDealState = "IDLE"
  /\ previousActiveColor = Uint8Mod - 1
  /\ colorStatus = [i \in 0 .. (NumPlayerColors - 1) |-> -1]
  /\ colorLeftOfDealer = 0
  /\ currentGame = 0
  /\ turnsToAdvance = 0
  /\ stopped = TRUE
  /\ yaw = "off"
  /\ initializationStart = 0
  /\ adjustStart = 0
  /\ hung = FALSE
  /\ dealLog = NewDealLog
  /\ tickLog = NewTickLog

\* no game has been selected
InitNoGame ==
  /\ initialRoundsToDeal = 0
  /\ remainingRoundsToDeal = 0
  /\ postCardsToDeal = 52
  /\ currentGamePtr = "nullptr"
  /\ loopPos = 4

InitDealState == InitDealGlobals /\ InitNoGame

\* overallTimeoutTag, the time of the last activity checkTimeouts measures
\* the quiet period from.  Only checkTimeouts reads it: the tag is kept
\* (tracked) in the specification that runs checkTimeouts and left at 0 in
\* the others.  lastButton and lastChange are the times of the last button
\* callback and of the last step that changed the deal state; sleptNow
\* tells that the last step was a checkTimeouts that started the
\* screensaver.
TimeoutsOff ==
  [tracked |-> FALSE, overallTimeoutTag |-> 0, lastButton |-> 0,
   lastChange |-> 0, sleptNow |-> FALSE]

\* "overallTimeoutTag = millis();" at time t
setOverallTimeoutTag(w, t) ==
  IF w.timeouts.tracked
  THEN [w EXCEPT !.timeouts.overallTimeoutTag = t]
  ELSE w

\* a table without tags and no registered game: the specifications that do
\* not turn the table
InitNoTable ==
  /\ tags = << >>
  /\ pos = 1
  /\ onTag = FALSE
  /\ game = [rounds |-> 0, flip |-> FALSE]

InitObserver ==
  /\ timeouts = TimeoutsOff
  /\ run = [id |-> 0, len |-> 0]
  /\ cSeq = << >>
  /\ flagSeq = << >>
  /\ op = "init"

InitDealr ==
  /\ InitFlags
  /\ InitStoreLoaded
  /\ InitClassifierState
  /\ InitDispenseState
  /\ InitObserver
  /\ InitDealState
  /\ InitNoTable
  /\ currentDealState = "IDLE"
  /\ currentDisplayState = "INTRO_ANIM"
  /\ currentToolsMenu = 0

(***************************************************************************)
(* The firmware state as one record, so that a function of the firmware is *)
(* an operator from the state before the call to the state after it.       *)
(* textDone is an input: the scrolling text or animation on the display    *)
(* has run to its end when updateDisplay looks at it.                      *)
(***************************************************************************)
World ==
  [flags1 |-> flags1, flags2 |-> flags2, flags3 |-> flags3,
   flags4 |-> flags4, flags5 |-> flags5, activeColor |-> activeColor,
   slideStep |-> slideStep, previousSlideStep |-> previousSlideStep,
   amount |-> amount, cardInCraw |-> cardInCraw,
   previousCardInCraw |-> previousCardInCraw, throwStart |-> throwStart,
   retractStartTime |-> retractStartTime, retractStarted |-> retractStarted,
   retractCompleted |-> retractCompleted, lastStepTime |-> lastStepTime,
   lastDebounceTime |-> lastDebounceTime,
   consecutiveDeals |-> consecutiveDeals, feedCard |-> feedCard,
   flywheel |-> flywheel, currentDealState |-> currentDealState,
   currentDisplayState |-> currentDisplayState,
   currentToolsMenu |-> currentToolsMenu, now |-> now, pc |-> pc,
   dispenseLog |-> dispenseLog, textDone |-> FALSE,
   previousDealState |-> previousDealState,
   previousActiveColor |-> previousActiveColor,
   colorStatus |-> colorStatus, colorLeftOfDealer |-> colorLeftOfDealer,
   initialRoundsToDeal |-> initialRoundsToDeal,
   remainingRoundsToDeal |-> remainingRoundsToDeal,
   postCardsToDeal |-> postCardsToDeal, currentGame |-> currentGame,
   currentGamePtr |-> currentGamePtr, turnsToAdvance |-> turnsToAdvance,
   stopped |-> stopped, yaw |-> yaw, initializationStart |-> initializationStart,
   adjustStart |-> adjustStart, tags |-> tags, pos |-> pos,
   onTag |-> onTag, game |-> game, loopPos |-> loopPos, hung |-> hung,
   dealLog |-> dealLog, tickLog |-> tickLog, timeouts |-> timeouts,
   blackBaseline |-> blackBaseline,
   stoppedFrom |-> "off",
   in |-> [arrive |-> FALSE, dtAdj |-> 0, lost |-> FALSE, jam |-> FALSE,
           hook |-> "none", tool |-> "done"]]

\* the state after the call becomes the next state
Commit(w) ==
  /\ flags1' = w.flags1
  /\ flags2' = w.flags2
  /\ flags3' = w.flags3
  /\ flags4' = w.flags4
  /\ flags5' = w.flags5
  /\ activeColor' = w.activeColor
  /\ slideStep' = w.slideStep
  /\ previousSlideStep' = w.previousSlideStep
  /\ amount' = w.amount
  /\ cardInCraw' = w.cardInCraw
  /\ previousCardInCraw' = w.previousCardInCraw
  /\ throwStart' = w.throwStart
  /\ retractStartTime' = w.retractStartTime
  /\ retractStarted' = w.retractStarted
  /\ retractCompleted' = w.retractCompleted
  /\ lastStepTime' = w.lastStepTime
  /\ lastDebounceTime' = w.lastDebounceTime
  /\ consecutiveDeals' = w.consecutiveDeals
  /\ feedCard' = w.feedCard
  /\ flywheel' = w.flywheel
  /\ currentDealState' = w.currentDealState
  /\ currentDisplayState' = w.currentDisplayState
  /\ currentToolsMenu' = w.currentToolsMenu
  /\ now' = w.now
  /\ pc' = w.pc
  /\ dispenseLog' = w.dispenseLog
  /\ previousDealState' = w.previousDealState
  /\ previousActiveColor' = w.previousActiveColor
  /\ colorStatus' = w.colorStatus
  /\ colorLeftOfDealer' = w.colorLeftOfDealer
  /\ initialRoundsToDeal' = w.initialRoundsToDeal
  /\ remainingRoundsToDeal' = w.remainingRoundsToDeal
  /\ postCardsToDeal' = w.postCardsToDeal
  /\ currentGame' = w.currentGame
  /\ currentGamePtr' = w.currentGamePtr
  /\ turnsToAdvance' = w.turnsToAdvance
  /\ stopped' = w.stopped
  /\ yaw' = w.yaw
  /\ initializationStart' = w.initializationStart
  /\ adjustStart' = w.adjustStart
  /\ tags' = w.tags
  /\ pos' = w.pos
  /\ onTag' = w.onTag
  /\ game' = w.game
  /\ loopPos' = w.loopPos
  /\ hung' = w.hung
  /\ dealLog' = w.dealLog
  /\ tickLog' = w.tickLog
  /\ timeouts' = w.timeouts

(***************************************************************************)
(* Display.  Only what the display code does to the control state is       *)
(* modelled: the ERROR case of updateDisplay requests a full exit and      *)
(* moves the deal state to RESET_DEALR; the animated cases move on to the  *)
(* next menu, through advanceMenu, once their text or animation is over.   *)
(***************************************************************************)
\* the cases of advanceMenu that updateDisplay reaches
advanceMenuFromDisplay(w) ==
  CASE w.currentDisplayState = "INTRO_ANIM" ->
         [w EXCEPT !.currentDisplayState = "SCROLL_PLACE_TAGS_TEXT"]
    [] w.currentDisplayState = "SCROLL_PLACE_TAGS_TEXT" ->
         [w EXCEPT !.currentDisplayState = "SCROLL_PICK_GAME_TEXT"]
    [] w.currentDisplayState = "SCROLL_PICK_GAME_TEXT" ->
         IF w.flags2.blinkingAnimationActive
         THEN [w EXCEPT !.currentDisplayState = "SCREENSAVER"]
         ELSE [w EXCEPT !.currentDisplayState = "SELECT_GAME",
                        !.flags4.toolsMenuActive = FALSE]
    [] OTHER -> w

\* the display of the error leaves the deal state alone
updateDisplay_errorStays(w) ==
  CASE w.currentDisplayState = "INTRO_ANIM" ->
         IF w.flags2.initialAnimationComplete THEN advanceMenuFromDisplay(w)
         ELSE IF w.textDone
              THEN [w EXCEPT !.flags2.initialAnimationComplete = TRUE,
                             !.flags2.initialAnimationInProgress = FALSE]
              ELSE w
    [] w.currentDisplayState = "SCROLL_PLACE_TAGS_TEXT" ->
         IF w.textDone THEN advanceMenuFromDisplay(w) ELSE w
    [] w.currentDisplayState = "SCROLL_PICK_GAME_TEXT" ->
         IF w.textDone
         THEN advanceMenuFromDisplay(
                [w EXCEPT !.flags2.blinkingAnimationActive = TRUE])
         ELSE w
    [] OTHER -> w

updateDisplay(w) ==
  CASE w.currentDisplayState = "ERROR" ->
         [w EXCEPT !.flags4.fullExit = TRUE,
                   !.currentDealState = "RESET_DEALR"]
    [] w.currentDisplayState = "INTRO_ANIM" ->
         IF w.flags2.initialAnimationComplete THEN advanceMenuFromDisplay(w)
         ELSE IF w.textDone
              THEN [w EXCEPT !.flags2.initialAnimationComplete = TRUE,
                             !.flags2.initialAnimationInProgress = FALSE]
              ELSE w
    [] w.currentDisplayState = "SCROLL_PLACE_TAGS_TEXT" ->
         IF w.textDone THEN advanceMenuFromDisplay(w) ELSE w
    [] w.currentDisplayState = "SCROLL_PICK_GAME_TEXT" ->
         IF w.textDone
         THEN advanceMenuFromDisplay(
                [w EXCEPT !.flags2.blinkingAnimationActive = TRUE])
         ELSE w
    [] OTHER -> w

(***************************************************************************)
(* Flywheel                                                                *)
(***************************************************************************)
flywheelOn(w, direction) ==
  [w EXCEPT !.flywheel = IF direction THEN "forward" ELSE "reverse"]

flywheelOff(w) == [w EXCEPT !.flywheel = "off"]

(***************************************************************************)
(* Dispensing pipeline.  delay() only lets time pass: the time between two *)
(* reads of millis() is chosen by the environment in the actions.          *)
(***************************************************************************)
\* pollCraw at time t with the CARD_SENS pin reading level (TRUE = HIGH)
pollCraw(w, t, level) ==
  IF USub(t, w.lastDebounceTime) >= debounceInterval
  THEN LET w1 == [w EXCEPT !.cardInCraw = level, !.lastDebounceTime = t]
       IN  IF level # w.previousCardInCraw
           THEN IF level = FALSE
                THEN [w1 EXCEPT !.flags3.cardLeftCraw = FALSE,
                                !.flags1.cardDealt = FALSE,
                                !.previousCardInCraw = level]
                ELSE [w1 EXCEPT !.flags3.cardLeftCraw = TRUE,
                                !.previousCardInCraw = level,
                                !.dispenseLog.beamExits = @ + 1]
           ELSE w1
  ELSE w

\* slide step 0 that leaves step 0 on the first exit, whatever was requested
slideStep0_oneExit(w, t) ==
  LET w1 == IF w.slideStep # w.previousSlideStep
            THEN [w EXCEPT !.previousSlideStep = w.slideStep,
                           !.feedCard = FeedForward,
                           !.lastStepTime = t]
            ELSE w
  IN  IF w1.flags3.cardLeftCraw
      THEN [w1 EXCEPT !.flags3.cardLeftCraw = FALSE,
                      !.amount = (w1.amount - 1) % Uint8Mod,
                      !.dispenseLog.exitsCounted = @ + 1,
                      !.slideStep = 1]
      ELSE w1

\* case 0 of slideCard
slideStep0(w, t) ==
  LET w1 == IF w.slideStep # w.previousSlideStep
            THEN [w EXCEPT !.previousSlideStep = w.slideStep,
                           !.feedCard = FeedForward,
                           !.lastStepTime = t]
            ELSE w
  IN  IF w1.flags3.cardLeftCraw
      THEN LET left == (w1.amount - 1) % Uint8Mod
           IN  [w1 EXCEPT !.flags3.cardLeftCraw = FALSE,
                          !.amount = left,
                          !.dispenseLog.exitsCounted = @ + 1,
                          !.slideStep = IF left <= 0 THEN 1 ELSE @]
      ELSE w1

\* slideCard(amount) at time t
slideCard(w, t) ==
  CASE w.slideStep = 0 -> slideStep0(w, t)
    [] w.slideStep = 1 ->
         [w EXCEPT !.feedCard = FeedReverse,
                   !.lastStepTime = t,
                   !.slideStep = 2,
                   !.dispenseLog.stepsRun = Append(@, 1)]
    [] w.slideStep = 2 ->
         IF /\ w.slideStep # w.previousSlideStep
            /\ USub(t, w.lastStepTime) >= reverseFeedTime
         THEN [w EXCEPT !.previousSlideStep = w.slideStep,
                        !.feedCard = FeedNeutral,
                        !.lastStepTime = t,
                        !.slideStep = 3,
                        !.dispenseLog.stepsRun = Append(@, 2)]
         ELSE w
    [] w.slideStep = 3 ->
         IF /\ w.slideStep # w.previousSlideStep
            /\ USub(t, w.lastStepTime) >= stopSettleTime
         THEN [setOverallTimeoutTag(w, t)
                 EXCEPT !.previousSlideStep = -1,
                        !.feedCard = FeedNeutral,
                        !.slideStep = 0,
                        !.flags1.throwingCard = FALSE,
                        !.flags1.cardDealt = TRUE,
                        !.dispenseLog.stepsRun = Append(@, 3)]
         ELSE w
    [] OTHER -> w

\* the throw is left in progress
resetThrowCardState_keepsThrowing(w) ==
  [w EXCEPT !.previousSlideStep = -1,
            !.feedCard = FeedNeutral,
            !.slideStep = 0,
            !.flags1.cardDealt = TRUE]

resetThrowCardState(w) ==
  [setOverallTimeoutTag(w, w.now)
     EXCEPT !.previousSlideStep = -1,
            !.feedCard = FeedNeutral,
            !.slideStep = 0,
            !.flags1.throwingCard = FALSE,
            !.flags1.cardDealt = TRUE]

\* handleThrowingTimeout(currentTime)
handleThrowingTimeout(w, currentTime) ==
  LET w1 == IF /\ USub(currentTime, w.throwStart) >= throwExpiration
               /\ ~w.retractStarted
               /\ ~w.retractCompleted
            THEN flywheelOn([w EXCEPT !.retractStarted = TRUE,
                                      !.retractStartTime = currentTime,
                                      !.feedCard = FeedReverse], FALSE)
            ELSE w
      w2 == IF /\ w1.retractStarted
               /\ USub(currentTime, w1.retractStartTime) >= retractDuration
            THEN [flywheelOff([w1 EXCEPT !.retractStarted = FALSE,
                                         !.feedCard = FeedNeutral])
                    EXCEPT !.retractCompleted = TRUE]
            ELSE w1
  IN  IF w2.retractCompleted
      THEN LET w3 == [w2 EXCEPT !.retractCompleted = FALSE,
                                !.dispenseLog.timedOut = TRUE]
           IN  updateDisplay(
                 IF w3.currentToolsMenu = 1 THEN resetThrowCardState(w3)
                 ELSE IF w3.currentToolsMenu = 2
                      THEN [w3 EXCEPT !.flags4.errorInProgress = TRUE,
                                      !.flags4.toolsMenuActive = TRUE,
                                      !.flags4.toolsExit = TRUE,
                                      !.currentDisplayState = "SELECT_TOOL"]
                      ELSE resetThrowCardState(w3))
      ELSE w2

\* prepareForDeal, whose own millis() reads t
prepareForDeal(w, t) ==
  [flywheelOn([w EXCEPT !.flags1.throwingCard = TRUE], TRUE)
     EXCEPT !.flags3.cardLeftCraw = FALSE,
            !.throwStart = t,
            !.slideStep = 0,
            !.previousSlideStep = -1]

\* cardDispensingActions(amount): currentTime is read first; prepareForDeal
\* reads millis() again, skew ms later.  level is the CARD_SENS reading and
\* faceExpired tells that currentTime - expressionStarted exceeds
\* expressionDuration.
cardDispensingActions(w, skew, level, faceExpired) ==
  LET currentTime == w.now
      w1 == IF ~w.flags1.throwingCard
            THEN prepareForDeal([w EXCEPT !.now = @ + skew], w.now + skew)
            ELSE LET s == slideCard(pollCraw(w, currentTime, level),
                                    currentTime)
                 IN  IF /\ s.currentDisplayState # "CUSTOM_FACE"
                        /\ faceExpired
                        /\ ~s.flags5.handlingFlipCard
                     THEN updateDisplay(
                            [s EXCEPT !.currentDisplayState = "STRUGGLE"])
                     ELSE s
  IN  handleThrowingTimeout(w1, currentTime)

\* dealSingleCard(amount) up to its while loop
dealSingleCardEnter(w) ==
  LET w1 == IF w.currentDisplayState \in {"LOOK_LEFT", "LOOK_RIGHT"}
            THEN updateDisplay([w EXCEPT !.currentDisplayState = "LOOK_STRAIGHT"])
            ELSE w
  IN  IF w1.consecutiveDeals < 3
      THEN IF ~w1.flags1.cardDealt
           THEN [w1 EXCEPT !.pc = "dispensing"]
           ELSE [flywheelOff(w1) EXCEPT !.pc = "returned"]
      ELSE [w1 EXCEPT !.consecutiveDeals = 0,
                      !.currentDealState = "ADVANCING",
                      !.pc = "returned"]

\* one pass of "while (!cardDealt) { cardDispensingActions(amount);
\* if (errorInProgress) return; }" and what follows the loop
dealSingleCardLoop(w, skew, level, faceExpired) ==
  LET after(x) ==
        IF x.flags4.errorInProgress THEN [x EXCEPT !.pc = "returned"]
        ELSE IF x.flags1.cardDealt
             THEN [flywheelOff(x) EXCEPT !.pc = "returned"]
             ELSE x
  IN  after(cardDispensingActions(w, skew, level, faceExpired))

(***************************************************************************)
(* SpecDispense: dispensing operations requested one after the other, as   *)
(* Game::dispenseCards requests them.  The statics and globals of the      *)
(* pipeline persist from one operation to the next.                        *)
(***************************************************************************)
ToolsMenus == {0, 1, 2}

InitDispense ==
  /\ InitFlags
  /\ InitStoreLoaded
  /\ InitClassifierState
  /\ InitDispenseState
  /\ InitObserver
  /\ InitDealState
  /\ InitNoTable
  /\ blackBaseline \in ClassifierBaselines
  /\ currentDealState = "AWAITING_PLAYER_DECISION"
  /\ currentDisplayState = "DEAL_CARDS"
  /\ currentToolsMenu \in ToolsMenus

\* Game::dispenseCards calls dealSingleCard(m)
DispenseRequest ==
  /\ pc = "loop"
  /\ dispenseLog.deals < MaxDeals
  /\ \E m \in 1 .. MaxCards, dt \in Elapse :
       /\ now + dt <= MaxTicks * ClockGrain
       /\ Commit(dealSingleCardEnter(
            [World EXCEPT !.now = now + dt,
                          !.amount = m,
                          !.dispenseLog =
                             [NewDispenseLog(m, dispenseLog.deals + 1)
                                EXCEPT !.startedAt = now + dt]]))
  /\ op' = "dealSingleCard"
  /\ UNCHANGED << sensorVars, storeVars, flip7 >>

\* one iteration of the loop of dealSingleCard
DispenseIteration ==
  /\ pc = "dispensing"
  /\ \E dt \in Elapse, level \in BOOLEAN, faceExpired \in BOOLEAN,
        skew \in Skew :
       /\ now + dt + skew <= MaxTicks * ClockGrain
       /\ flags1.throwingCard => skew = 0
       /\ ~flags1.throwingCard => (level /\ ~faceExpired)
       /\ Commit(dealSingleCardLoop([World EXCEPT !.now = now + dt],
                                    skew, level, faceExpired))
  /\ op' = "cardDispensingActions"
  /\ UNCHANGED << sensorVars, storeVars, flip7 >>

\* dealSingleCard has returned: Game::dispenseCards clears the flag
DispenseReturn ==
  /\ pc = "returned"
  /\ Commit([World EXCEPT !.flags1.cardDealt = FALSE, !.pc = "loop"])
  /\ op' = "dispenseCards"
  /\ UNCHANGED << sensorVars, storeVars, flip7 >>

NextDispense == DispenseRequest \/ DispenseIteration \/ DispenseReturn

SpecDispense == InitDispense /\ [][NextDispense]_vars
(***************************************************************************)
(* The turntable.  tags lists the identities clockwise; the sensor is over *)
(* tag pos or in the gap that follows it clockwise.  The blocking scan     *)
(* loops of the firmware are taken as a whole: a loop that waits for the   *)
(* background ends in the gap next to the tag in the direction of          *)
(* rotation, a loop that waits for a tag ends over the next tag in that    *)
(* direction with activeColor its identity (the sensor reads a tag as its  *)
(* identity), and a loop whose exit condition the table cannot satisfy     *)
(* never returns (hung).                                                   *)
(***************************************************************************)
NextIndex(w) == (w.pos % Len(w.tags)) + 1

PrevIndex(w) == IF w.pos = 1 THEN Len(w.tags) ELSE w.pos - 1

TagHere(w) == w.tags[w.pos]

\* from a tag into the gap beside it; clockwise is TRUE
leaveTag(w, clockwise) ==
  IF w.onTag
  THEN [w EXCEPT !.onTag = FALSE,
                 !.pos = IF clockwise THEN w.pos ELSE PrevIndex(w)]
  ELSE w

\* from a gap onto the tag that bounds it
arriveTag(w, clockwise) ==
  IF w.onTag THEN w
  ELSE [w EXCEPT !.onTag = TRUE,
                 !.pos = IF clockwise THEN NextIndex(w) ELSE w.pos]

\* rotate(rotationSpeed, direction); CW is TRUE
rotate(w, direction) ==
  updateDisplay(
    [w EXCEPT !.flags1.rotatingCW = direction,
              !.flags1.rotatingCCW = ~direction,
              !.stopped = FALSE,
              !.yaw = IF direction THEN "cw" ELSE "ccw",
              !.dealLog.reversedNow =
                 @ \/ w.yaw = (IF direction THEN "ccw" ELSE "cw"),
              !.dealLog.turnedNow =
                 @ \/ (/\ w.yaw = "off"
                       /\ w.stoppedFrom = (IF direction THEN "ccw" ELSE "cw")),
              !.currentDisplayState =
                 IF direction THEN "LOOK_LEFT" ELSE "LOOK_RIGHT"])

rotateStop(w) ==
  IF ~w.stopped
  THEN [w EXCEPT !.stopped = TRUE,
                 !.yaw = "off",
                 !.stoppedFrom = w.yaw,
                 !.flags1.rotatingCW = FALSE,
                 !.flags1.rotatingCCW = FALSE]
  ELSE w

\* the brightness the sensor reads where it stands
BrightnessHere(w) == IF w.onTag THEN TagBrightness ELSE GapBrightness

\* what one sample of colorScan does to the spike flag
spikeSample(w) ==
  [w EXCEPT !.flags2.baselineExceeded =
     checkForColorSpike(BrightnessHere(w), w.blackBaseline, @,
                        w.flags5.adjustInProgress)]

\* the single colorScan of a tick: while the yaw motor runs the table may
\* have turned into the next zone (w.in.arrive).  Leaving a tag, the
\* classifier has settled on the background; reaching a tag, the brightness
\* spikes before a run of debounceCount classifications is complete, so
\* activeColor keeps its value
colorScan(w) ==
  spikeSample(
    IF w.yaw = "off" \/ ~w.in.arrive \/ Len(w.tags) = 0 THEN w
    ELSE IF w.onTag
         THEN [leaveTag(w, w.yaw = "cw") EXCEPT !.activeColor = 0]
         ELSE arriveTag(w, w.yaw = "cw"))

\* an iteration of a loop whose body does not read flags4.errorInProgress
unpolled(w) == [w EXCEPT !.dealLog.blindNow = @ \/ w.flags4.errorInProgress]

\* "while (activeColor != 0) { colorScan(); rotate(speed, direction); }"
scanUntilBackground(w, direction) ==
  IF w.activeColor = 0 THEN w
  ELSE spikeSample(
         [rotate(leaveTag(unpolled(w), direction), direction)
            EXCEPT !.activeColor = 0])

\* "while (activeColor == 0) { colorScan(); rotate(speed, direction); }"
scanUntilTag(w, direction) ==
  IF w.activeColor # 0 THEN w
  ELSE IF Len(w.tags) = 0 THEN [unpolled(w) EXCEPT !.hung = TRUE]
  ELSE LET w1 == rotate(arriveTag(unpolled(w), direction), direction)
       IN  spikeSample([w1 EXCEPT !.activeColor = TagHere(w1)])

\* moveOffActiveColor(rotateClockwise)
moveOffActiveColor(w, rotateClockwise) ==
  IF w.activeColor # 0 /\ w.flags4.errorInProgress
  THEN [w EXCEPT !.dealLog.abortedNow = TRUE]
  ELSE rotateStop(scanUntilBackground(w, rotateClockwise))

\* returnToActiveColor(rotateClockwise)
returnToActiveColor(w, rotateClockwise) ==
  IF w.activeColor = 0 /\ w.flags4.errorInProgress
  THEN [w EXCEPT !.dealLog.abortedNow = TRUE]
  ELSE LET w1 == scanUntilTag(w, rotateClockwise)
       IN  IF w1.hung THEN w1 ELSE rotateStop(w1)

(***************************************************************************)
(* dealSingleCard as the handlers of the main loop call it: the loop runs  *)
(* to its end inside the handler.  The card path behaves in one of two     *)
(* ways, given as the list of what each loop iteration finds: every        *)
(* requested card enters and leaves the beam, or no card ever reaches it.  *)
(***************************************************************************)
CardsExit(m) ==
  << [dt |-> 0, level |-> TRUE] >>
  \o [i \in 1 .. 2 * m |->
        [dt |-> debounceInterval, level |-> (i % 2 = 0)]]
  \o << [dt |-> debounceInterval, level |-> TRUE],
        [dt |-> reverseFeedTime, level |-> TRUE],
        [dt |-> stopSettleTime, level |-> TRUE] >>

CardJam ==
  << [dt |-> 0, level |-> TRUE],
     [dt |-> throwExpiration, level |-> TRUE],
     [dt |-> retractDuration, level |-> TRUE] >>

RECURSIVE RunDispense(_, _)
RunDispense(w, sched) ==
  IF w.pc # "dispensing" \/ sched = << >> THEN w
  ELSE RunDispense(
         dealSingleCardLoop([w EXCEPT !.now = @ + Head(sched).dt],
                            0, Head(sched).level, FALSE),
         Tail(sched))

\* dealSingleCard(m) run to its return; the pipeline that does not return
\* under the chosen behaviour of the card path leaves pc at "dispensing"
dealSingleCard(w, m) ==
  LET leave(x, ran) ==
        IF x.pc # "returned" THEN x
        ELSE [x EXCEPT
                !.pc = "loop",
                !.dealLog.dispenses = IF ran THEN @ + 1 ELSE @,
                !.dealLog.dispensedNow = IF ran THEN @ + 1 ELSE @,
                !.dealLog.exits = @ + x.dispenseLog.beamExits,
                !.dealLog.dealtAt =
                   IF x.onTag
                   THEN [@ EXCEPT ![x.pos] =
                           Min(@ + x.dispenseLog.beamExits, MaxConfirms)]
                   ELSE @,
                !.dealLog.dealtOff =
                   IF x.onTag THEN @
                   ELSE Min(@ + x.dispenseLog.beamExits, MaxConfirms),
                !.dealLog.jams = IF x.dispenseLog.timedOut THEN @ + 1 ELSE @,
                !.dealLog.faults =
                   IF x.dispenseLog.timedOut THEN @ + 1 ELSE @]
      pipeline(x) ==
        leave(RunDispense(x, IF w.in.jam THEN CardJam ELSE CardsExit(m)),
              x.pc = "dispensing")
  IN  pipeline(dealSingleCardEnter(
            [w EXCEPT !.amount = m,
                      !.dispenseLog =
                         [NewDispenseLog(m, 1) EXCEPT !.startedAt = w.now]]))
(***************************************************************************)
(* Handlers of the deal states                                             *)
(***************************************************************************)
\* a decrement by two
Dec8_byTwo(x) == (x - 2) % Uint8Mod

\* uint8_t x; x--
Dec8(x) == (x - 1) % Uint8Mod

\* currentGamePtr->requiresFlipCard()
requiresFlipCard(w) == w.game.flip

\* Game::_onMainDealEnd: the default onMainDealEnd
onMainDealEnd(w) ==
  LET called == [w EXCEPT !.dealLog.mainDealEnds = Min(@ + 1, 2)]
  IN  IF w.postCardsToDeal <= 0
      THEN [called EXCEPT !.flags3.gameOver = TRUE]
      ELSE called

\* the flags every fine adjustment ends by clearing
endAdjust(w) ==
  [w EXCEPT !.flags5.adjustInProgress = FALSE,
            !.flags2.fineAdjustCheckStarted = FALSE,
            !.flags1.correctingCW = FALSE,
            !.flags1.correctingCCW = FALSE]

\* the flip card is dealt where the turntable stands
handleFlipCard_dealsOnTag(w) ==
  LET
      back(x, y) ==
        returnToActiveColor(
          [y EXCEPT !.flags1.cardDealt = FALSE,
                    !.flags4.postDealRemainderHandled = TRUE,
                    !.dealLog.flips =
                       IF y.dealLog.dispensedNow > x.dealLog.dispensedNow
                       THEN Min(@ + 1, 2) ELSE @,
                    !.dealLog.flipGapNow =
                       /\ y.dealLog.dispensedNow > x.dealLog.dispensedNow
                       /\ ~x.onTag], TRUE)
      close(z) ==
        [z EXCEPT !.flags5.handlingFlipCard = FALSE,
                  !.dealLog.flipBackNow =
                     /\ w.onTag /\ z.onTag /\ z.pos = w.pos
                     /\ z.yaw = "off"]
      deal(x) ==
        close(back(x, dealSingleCard(
                        updateDisplay([x EXCEPT
                                         !.currentDisplayState = "FLIP"]),
                        1)))
  IN  deal([w EXCEPT !.flags5.handlingFlipCard = TRUE])

handleFlipCard(w) ==
  LET
      back(x, y) ==
        returnToActiveColor(
          [y EXCEPT !.flags1.cardDealt = FALSE,
                    !.flags4.postDealRemainderHandled = TRUE,
                    !.dealLog.flips =
                       IF y.dealLog.dispensedNow > x.dealLog.dispensedNow
                       THEN Min(@ + 1, 2) ELSE @,
                    !.dealLog.flipGapNow =
                       /\ y.dealLog.dispensedNow > x.dealLog.dispensedNow
                       /\ ~x.onTag], TRUE)
      close(z) ==
        [z EXCEPT !.flags5.handlingFlipCard = FALSE,
                  !.dealLog.flipBackNow =
                     /\ w.onTag /\ z.onTag /\ z.pos = w.pos
                     /\ z.yaw = "off"]
      deal(x) ==
        close(back(x, dealSingleCard(
                        updateDisplay([x EXCEPT
                                         !.currentDisplayState = "FLIP"]),
                        1)))
  IN  deal(moveOffActiveColor([w EXCEPT !.flags5.handlingFlipCard = TRUE],
                              FALSE))

handleAdvancingOnePlayer(w) ==
  IF w.currentGamePtr = "nullptr" THEN [w EXCEPT !.hung = TRUE]
  ELSE
  LET w0 == scanUntilTag(w, TRUE)
      w1 == [endAdjust(rotateStop(w0)) EXCEPT !.adjustStart = w0.now,
                                              !.turnsToAdvance = Dec8(@)]
  IN  IF w0.hung THEN w0
      ELSE IF w1.turnsToAdvance > 0
      THEN LET w2 == moveOffActiveColor(w1, TRUE)
           IN  [w2 EXCEPT !.previousActiveColor = w2.activeColor,
                          !.flags3.advanceOnePlayer = TRUE,
                          !.currentDealState = "ADVANCING"]
      ELSE [w1 EXCEPT !.flags3.advanceOnePlayer = FALSE,
                      !.currentDealState = "AWAITING_PLAYER_DECISION"]

\* every player tag seen after the first lap completes a round
roundCompleted_anyPlayer(w) ==
  w.activeColor > 1 /\ w.flags3.notFirstRoundOfDeal

\* every sighting of the player left of the dealer completes a round
roundCompleted_everySighting(w) == w.activeColor = w.colorLeftOfDealer

\* "if (activeColor == colorLeftOfDealer && flags3.notFirstRoundOfDeal)"
roundCompleted(w) ==
  w.activeColor = w.colorLeftOfDealer /\ w.flags3.notFirstRoundOfDeal

handleStandardGameDecisionsAfterFineAdjust(w) ==
  LET \* "Decide Next State If Not Already Changed"
      decideNext(x) ==
        IF ~x.flags3.postDeal \/ ~x.flags4.postDealRemainderHandled
        THEN [x EXCEPT !.currentDealState = "DEALING"]
        ELSE x
      \* after the flip card
      flipped(x) ==
        IF ~x.flags3.gameOver
        THEN [x EXCEPT !.currentDealState = "AWAITING_PLAYER_DECISION"]
        ELSE decideNext(x)
      \* the remainder of a main deal that is complete
      remainder(x) ==
        IF /\ ~x.flags3.gameOver
           /\ x.currentGamePtr # "nullptr"
           /\ requiresFlipCard(x)
        THEN flipped(handleFlipCard(x))
        ELSE IF ~x.flags3.gameOver
        THEN [x EXCEPT !.flags4.postDealRemainderHandled = TRUE,
                       !.currentDealState = "AWAITING_PLAYER_DECISION"]
        ELSE decideNext(x)
      notify(x) ==
        IF x.currentGamePtr # "nullptr" THEN onMainDealEnd(x) ELSE x
      \* a round has been completed
      roundEnd(x) ==
        IF x.remainingRoundsToDeal = 0 /\ ~x.flags3.postDeal
        THEN remainder(notify([x EXCEPT !.flags3.postDeal = TRUE]))
        ELSE decideNext(x)
      \* a non-red tag: the first one seen is left of the dealer
      identify(x) ==
        IF ~x.flags5.playerLeftOfDealerIdentified
        THEN [x EXCEPT !.flags5.playerLeftOfDealerIdentified = TRUE,
                       !.colorLeftOfDealer = x.activeColor]
        ELSE x
      player(x) ==
        IF roundCompleted(x)
        THEN roundEnd([x EXCEPT !.remainingRoundsToDeal = Dec8(@)])
        ELSE decideNext(x)
      \* the red tag
      red(x) ==
        IF x.colorStatus[x.activeColor - 1] = -1
        THEN [x EXCEPT !.colorStatus[x.activeColor - 1] = 0,
                       !.flags3.notFirstRoundOfDeal = TRUE]
        ELSE x
      tag(x) ==
        IF x.activeColor = 1 THEN decideNext(red(x))
        ELSE IF x.activeColor > 1 THEN player(identify(x))
        ELSE decideNext(x)
  IN  tag(rotateStop(endAdjust(w)))

\* the reference tag twice in a row is an error in post-deal only
missingTags_postDeal(w) ==
  w.activeColor = 1 /\ w.previousActiveColor = 1 /\ w.flags3.postDeal

\* "if (activeColor == 1 && previousActiveColor == 1 && !flags3.postDeal)"
missingTags(w) ==
  w.activeColor = 1 /\ w.previousActiveColor = 1 /\ ~w.flags3.postDeal

handleAdvancingStateInAdjust(w) ==
  LET w0 == endAdjust(w)
  IN  IF w0.flags3.advanceOnePlayer THEN handleAdvancingOnePlayer(w0)
      ELSE IF missingTags(w0)
      THEN [w0 EXCEPT !.flags4.errorInProgress = TRUE,
                      !.flags4.fullExit = TRUE,
                      !.currentDealState = "RESET_DEALR",
                      !.dealLog.raisedNow = TRUE,
                      !.dealLog.fatal = TRUE]
      ELSE handleStandardGameDecisionsAfterFineAdjust(w0)

handleInitializingStateInAdjust(w) ==
  IF w.activeColor > 1 /\ w.colorStatus[w.activeColor - 1] = -1
  THEN [endAdjust(scanUntilBackground(w, FALSE))
          EXCEPT !.adjustStart = w.now]
  ELSE IF w.activeColor = 1
  THEN [endAdjust(rotateStop(w))
          EXCEPT !.previousActiveColor = w.activeColor,
                 !.flags1.dealInitialized = TRUE,
                 !.adjustStart = w.now,
                 !.flags3.notFirstRoundOfDeal = FALSE,
                 !.currentDealState = "ADVANCING",
                 !.dealLog.confirms = NewDealLog.confirms]
  ELSE w

\* the correction is started without stopping the rotation first
handleRotationAdjustments_noStop(w) ==
  IF w.flags1.rotatingCW /\ ~w.flags1.correctingCW /\ ~w.flags1.correctingCCW
  THEN rotate([w EXCEPT !.flags1.correctingCW = FALSE,
                        !.flags1.correctingCCW = TRUE], FALSE)
  ELSE IF /\ w.flags1.rotatingCCW
          /\ ~w.flags1.correctingCW
          /\ ~w.flags1.correctingCCW
  THEN rotate([w EXCEPT !.flags1.correctingCCW = FALSE,
                        !.flags1.correctingCW = TRUE], TRUE)
  ELSE w

handleRotationAdjustments(w) ==
  IF w.flags1.rotatingCW /\ ~w.flags1.correctingCW /\ ~w.flags1.correctingCCW
  THEN rotate([rotateStop(w) EXCEPT !.flags1.correctingCW = FALSE,
                                    !.flags1.correctingCCW = TRUE], FALSE)
  ELSE IF /\ w.flags1.rotatingCCW
          /\ ~w.flags1.correctingCW
          /\ ~w.flags1.correctingCCW
  THEN rotate([rotateStop(w) EXCEPT !.flags1.correctingCCW = FALSE,
                                    !.flags1.correctingCW = TRUE], TRUE)
  ELSE w

handleFineAdjustTimeout(w) ==
  IF /\ USub(w.now, w.adjustStart) > errorTimeout
     /\ w.currentDealState # "AWAITING_PLAYER_DECISION"
  THEN updateDisplay([w EXCEPT !.currentDisplayState = "ERROR",
                               !.currentDealState = "IDLE",
                               !.tickLog.deadline = "adjust"])
  ELSE w

\* "while (activeColor < 1) { colorScan(); handleRotationAdjustments();
\* handleFineAdjustTimeout(); }": the table is turned back at low speed
\* until the tag that raised the spike is read; the loop lasts w.in.dtAdj.
\* Where no tag is ever read (w.in.lost: the tag has been taken away, or the
\* spike came from something that is not a tag) the loop goes on past the
\* deadline and does not end
fineAdjustLoop(w) ==
  LET turned(x) == arriveTag(x, x.flags1.rotatingCW)
      spin(x) == handleFineAdjustTimeout([x EXCEPT !.now = @ + LongWait,
                                                   !.hung = TRUE])
      read(x) == [x EXCEPT !.activeColor = TagHere(x),
                           !.now = @ + w.in.dtAdj,
                           !.dealLog.faults =
                              IF w.in.dtAdj > 0 THEN @ + 1 ELSE @]
  IN  IF w.activeColor >= 1 THEN w
      ELSE IF Len(w.tags) = 0 \/ w.in.lost
      THEN spin(handleRotationAdjustments(unpolled(w)))
      ELSE handleFineAdjustTimeout(
             spikeSample(read(turned(handleRotationAdjustments(unpolled(w))))))

fineAdjustCheck(w) ==
  LET start(x) ==
        IF ~x.flags2.fineAdjustCheckStarted
        THEN rotate([x EXCEPT !.adjustStart = x.now,
                              !.flags2.fineAdjustCheckStarted = TRUE],
                    ~x.flags1.rotatingCCW)
        ELSE x
      \* the tag the adjustment has settled on
      confirm(x) ==
        [rotateStop(x) EXCEPT
           !.dealLog.confirmNow = x.activeColor,
           !.dealLog.primaryNow =
              x.flags1.dealInitialized /\ ~x.flags3.postDeal,
           !.dealLog.prevConfirm = x.dealLog.lastConfirm,
           !.dealLog.lastConfirm = x.activeColor,
           !.dealLog.confirms[x.activeColor] =
              IF x.flags1.dealInitialized THEN Min(@ + 1, MaxConfirms)
              ELSE @]
      decide(x) ==
        IF ~x.flags1.dealInitialized
        THEN handleInitializingStateInAdjust(x)
        ELSE handleAdvancingStateInAdjust(x)
      found(x) == IF x.hung THEN x ELSE decide(confirm(x))
  IN  found(fineAdjustLoop(start(w)))

\* the spike check both scanning handlers end with
adjustOnSpike(w) ==
  LET w1 == IF w.flags2.baselineExceeded /\ ~w.flags5.adjustInProgress
            THEN [w EXCEPT !.adjustStart = w.now,
                           !.flags5.adjustInProgress = TRUE]
            ELSE w
  IN  IF w1.flags5.adjustInProgress THEN fineAdjustCheck(w1) ELSE w1

initializeToRed(w) ==
  LET currentTime == w.now
      start(x) ==
        IF ~x.flags1.rotatingCCW /\ ~x.flags5.adjustInProgress
        THEN [rotate(x, FALSE) EXCEPT !.initializationStart = currentTime]
        ELSE x
      timeout(x) ==
        IF x.hung THEN x
        ELSE IF USub(currentTime, x.initializationStart) > errorTimeout
        THEN updateDisplay([rotateStop(x) EXCEPT
                              !.currentDisplayState = "ERROR",
                              !.currentDealState = "IDLE",
                              !.tickLog.deadline = "init"])
        ELSE x
  IN  timeout(adjustOnSpike(colorScan(start(w))))

handleAdvancingState(w) ==
  LET entry ==
        LET e1 == [w EXCEPT !.flags5.adjustInProgress = FALSE,
                            !.flags2.newDealState = FALSE,
                            !.previousActiveColor =
                               IF w.activeColor # 0 THEN w.activeColor ELSE @]
            e2 == IF /\ ~e1.flags4.postDealRemainderHandled
                     /\ ~e1.flags3.postDeal
                     /\ e1.remainingRoundsToDeal = 0
                  THEN [e1 EXCEPT !.flags3.postDeal = TRUE,
                                  !.flags4.rotatingBackwards = FALSE]
                  ELSE e1
        IN  moveOffActiveColor(e2, ~e2.flags4.rotatingBackwards)
      w1 == IF w.flags2.newDealState THEN entry ELSE w
      w2 == IF w1.activeColor = 0 /\ ~w1.flags5.adjustInProgress
            THEN rotate(w1, ~w1.flags4.rotatingBackwards)
            ELSE w1
  IN  adjustOnSpike(colorScan(w2))

handleStandardGameRemainderCards(w) ==
  IF w.currentGamePtr # "nullptr" /\ requiresFlipCard(w)
  THEN handleFlipCard(w)
  ELSE [w EXCEPT !.flags4.postDealRemainderHandled = TRUE]

\* a tag of a player (identity above 1) is on the table
HasPlayerTag(w) == \E i \in 1 .. Len(w.tags) : w.tags[i] > 1

RECURSIVE seekPlayerTag(_)
seekPlayerTag(w) ==
  IF w.onTag /\ TagHere(w) > 1 THEN w
  ELSE seekPlayerTag(arriveTag(leaveTag(w, TRUE), TRUE))

\* "while (activeColor < 2 && previousActiveColor != 1) { colorScan();
\* rotate(mediumSpeed, CW); }"
scanUntilPlayerTag(w) ==
  IF w.activeColor >= 2 \/ w.previousActiveColor = 1 THEN w
  ELSE IF ~HasPlayerTag(w) THEN [unpolled(w) EXCEPT !.hung = TRUE]
  ELSE LET w1 == rotate(seekPlayerTag(unpolled(w)), TRUE)
       IN  spikeSample([w1 EXCEPT !.activeColor = TagHere(w1)])

handlePostDealGameplay(w) ==
  LET w1 == scanUntilPlayerTag(w)
      w2 == rotateStop(w1)
  IN  IF w1.hung THEN w1
      ELSE IF ~w2.flags4.postDealRemainderHandled
           THEN handleStandardGameRemainderCards(w2)
           ELSE [w2 EXCEPT !.currentDealState = "AWAITING_PLAYER_DECISION"]

handleToolsDealing(w) ==
  IF w.currentToolsMenu = 0 THEN dealSingleCard(w, 1) ELSE w

handleToolsAdvancingDecisions(w) ==
  IF w.currentToolsMenu = 0
  THEN updateDisplay([w EXCEPT !.currentDealState = "IDLE",
                               !.currentDisplayState = "SELECT_TOOL",
                               !.flags3.insideDealrTools = FALSE])
  ELSE w

\* the deal is not initialized before the first card
handleDealingState_dealsUninitialized(w) ==
  LET deal(x) ==
        IF ~x.flags1.cardDealt
        THEN IF x.flags4.toolsMenuActive THEN handleToolsDealing(x)
             ELSE dealSingleCard(x, 1)
        ELSE x
      advance(x) ==
        IF x.flags4.toolsMenuActive THEN handleToolsAdvancingDecisions(x)
        ELSE [x EXCEPT !.currentDealState = "ADVANCING"]
      dealt(x) ==
        IF x.flags1.cardDealt
        THEN advance([x EXCEPT !.flags1.cardDealt = FALSE])
        ELSE x
  IN  IF w.flags3.postDeal THEN handlePostDealGameplay(w)
      ELSE dealt(deal(w))

handleDealingState(w) ==
  LET deal(x) ==
        IF ~x.flags1.cardDealt
        THEN IF x.flags4.toolsMenuActive THEN handleToolsDealing(x)
             ELSE dealSingleCard(x, 1)
        ELSE x
      advance(x) ==
        IF x.flags4.toolsMenuActive THEN handleToolsAdvancingDecisions(x)
        ELSE [x EXCEPT !.currentDealState = "ADVANCING"]
      dealt(x) ==
        IF x.flags1.dealInitialized /\ x.flags1.cardDealt
        THEN advance([x EXCEPT !.flags1.cardDealt = FALSE])
        ELSE x
  IN  IF w.flags3.postDeal THEN handlePostDealGameplay(w)
      ELSE IF ~w.flags1.dealInitialized THEN initializeToRed(w)
      ELSE dealt(deal(w))
(***************************************************************************)
(* The orchestrator: resetFlags, the handlers of the RESET_DEALR, IDLE and *)
(* AWAITING_PLAYER_DECISION states, and the head of checkState             *)
(***************************************************************************)
resetFlags(w) ==
  [setOverallTimeoutTag(w, w.now) EXCEPT
     !.adjustStart = w.now,
     !.flags3.advanceOnePlayer = FALSE,
     !.flags2.baselineExceeded = FALSE,
     !.flags2.blinkingAnimationActive = FALSE,
     !.flags1.dealInitialized = FALSE,
     !.flags1.cardDealt = FALSE,
     !.flags3.cardLeftCraw = FALSE,
     !.flags1.correctingCCW = FALSE,
     !.flags1.correctingCW = FALSE,
     !.colorLeftOfDealer = -1,
     !.currentGame = 0,
     !.currentToolsMenu = 0,
     !.flags4.errorInProgress = FALSE,
     !.flags2.fineAdjustCheckStarted = FALSE,
     !.flags3.gameOver = FALSE,
     !.flags3.insideDealrTools = FALSE,
     !.flags2.initialAnimationComplete = FALSE,
     !.flags2.newDealState = FALSE,
     !.flags3.notFirstRoundOfDeal = FALSE,
     !.flags3.postDeal = FALSE,
     !.flags2.initialAnimationInProgress = FALSE,
     !.flags4.postDealRemainderHandled = FALSE,
     !.previousSlideStep = -1,
     !.previousCardInCraw = TRUE,
     !.flags5.playerLeftOfDealerIdentified = FALSE,
     !.flags4.rotatingBackwards = FALSE,
     !.flags1.rotatingCW = FALSE,
     !.flags1.rotatingCCW = FALSE,
     !.remainingRoundsToDeal = 0,
     !.stopped = TRUE,
     !.slideStep = 0,
     !.textDone = FALSE,  \* scrollingStarted, scrollingComplete = false
     !.flags1.throwingCard = FALSE,
     !.colorStatus = [i \in 0 .. (NumPlayerColors - 1) |-> -1]]

\* Config.h: scrollInstructions is true
handleResetDealrState(w) ==
  LET w1 == resetFlags([w EXCEPT !.currentGamePtr = "nullptr"])
      w2 == IF w1.flags4.fullExit
            THEN [w1 EXCEPT !.currentGame = 0,
                            !.currentToolsMenu = 0,
                            !.flags3.buttonInitialization = FALSE,
                            !.flags4.toolsMenuActive = FALSE,
                            !.currentDisplayState = "SCROLL_PLACE_TAGS_TEXT",
                            !.flags4.fullExit = FALSE]
            ELSE IF w1.flags4.gamesExit
            THEN [w1 EXCEPT !.currentToolsMenu = 0,
                            !.flags3.buttonInitialization = TRUE,
                            !.flags4.toolsMenuActive = FALSE,
                            !.currentDisplayState = "SELECT_GAME",
                            !.flags4.gamesExit = FALSE]
            ELSE IF w1.flags4.toolsExit
            THEN [w1 EXCEPT !.currentGame = 0,
                            !.flags3.buttonInitialization = TRUE,
                            !.flags4.toolsMenuActive = TRUE,
                            !.currentDisplayState = "SELECT_TOOL",
                            !.flags4.toolsExit = FALSE]
            ELSE w1
      w3 == updateDisplay([w2 EXCEPT !.currentDealState = "IDLE"])
  IN  [w3 EXCEPT !.dealLog.fatal =
                    IF w3.currentDealState = "IDLE" THEN FALSE ELSE @]

handleIdleState(w) ==
  LET w1 == IF w.flags2.newDealState
            THEN LET i1 == flywheelOff([w EXCEPT !.flags2.newDealState = FALSE])
                     i2 == IF ~i1.stopped THEN rotateStop(i1) ELSE i1
                 IN  [i2 EXCEPT !.tickLog.cleared = TRUE,
                                !.flags1.dealInitialized = FALSE,
                                !.flags3.postDeal = FALSE,
                                !.flags3.notFirstRoundOfDeal = FALSE,
                                !.postCardsToDeal = 52,
                                !.flags1.cardDealt = FALSE,
                                !.flags1.correctingCW = FALSE,
                                !.flags1.correctingCCW = FALSE]
            ELSE w
      w2 == updateDisplay(w1)
  IN  IF w2.slideStep # 0
      THEN [w2 EXCEPT !.previousSlideStep = -1, !.slideStep = 0]
      ELSE w2

handleGameOver(w) ==
  LET w1 == moveOffActiveColor(w, TRUE)
  IN  updateDisplay([w1 EXCEPT !.currentGamePtr = "nullptr",
                               !.flags3.gameOver = FALSE,
                               !.flags4.toolsMenuActive = FALSE,
                               !.flags4.gamesExit = TRUE,
                               !.currentDealState = "RESET_DEALR",
                               !.currentDisplayState = "SELECT_GAME"])

\* the dealing resumes while a player decides
handleAwaitingPlayerDecision_resumes(w) ==
  [w EXCEPT !.currentDealState = "DEALING"]

\* what the game and the display show while waiting leaves the state alone
handleAwaitingPlayerDecision(w) ==
  IF w.flags3.postDeal /\ w.postCardsToDeal <= 0
  THEN [w EXCEPT !.flags3.gameOver = TRUE]
  ELSE w

\* the error latch is cleared and the deal state is left where it is
checkErrorLatch_keepState(w) ==
  IF w.flags4.errorInProgress
  THEN updateDisplay([w EXCEPT !.flags4.errorInProgress = FALSE])
  ELSE w

\* checkState: "if (flags4.errorInProgress) { ... }"
checkErrorLatch(w) ==
  IF w.flags4.errorInProgress
  THEN updateDisplay([w EXCEPT !.flags4.errorInProgress = FALSE,
                               !.currentDealState = "RESET_DEALR"])
  ELSE w

\* checkState up to its switch on currentDealState: the change of state is
\* noticed, a game that is over is left, the error latch is served
checkStateEnter(w) ==
  LET noticed(x) ==
        IF x.currentDealState # x.previousDealState
        THEN [setOverallTimeoutTag(x, w.now)
                EXCEPT !.flags2.newDealState = TRUE,
                       !.previousDealState = x.currentDealState]
        ELSE x
      over(x) == IF x.flags3.gameOver THEN handleGameOver(x) ELSE x
      logged(x) ==
        [x EXCEPT !.tickLog =
           [latchAtStart |-> w.flags4.errorInProgress,
            stateAtStart |-> w.currentDealState,
            handler |-> x.currentDealState,
            startedAt |-> w.now,
            deadline |-> "none",
            cleared |-> FALSE,
            exits |-> IF x.currentDealState = "RESET_DEALR"
                      THEN {f \in {"fullExit", "gamesExit", "toolsExit"} :
                              x.flags4[f]}
                      ELSE {}]]
  IN  logged(checkErrorLatch(over(noticed(w))))
(***************************************************************************)
(* Menus, tools and buttons                                                *)
(***************************************************************************)
\* Game::setDealAmount(amount)
setDealAmount(w, n) ==
  [w EXCEPT !.initialRoundsToDeal = n,
            !.postCardsToDeal = 127,
            !.remainingRoundsToDeal = n]

\* Game::dispenseCards(amount)
dispenseCards(w, n) ==
  [dealSingleCard(w, n) EXCEPT !.flags1.cardDealt = FALSE]

\* Game::nextTurn(skipNumber)
nextTurn(w, skipNumber) ==
  [w EXCEPT !.flags3.advanceOnePlayer = TRUE,
            !.currentDealState = "ADVANCING",
            !.turnsToAdvance = skipNumber + 1]

\* what the game makes of a button while a player decides (w.in.hook): it
\* ignores the button, deals cards, passes the turn or leaves the game
handleButtonPress(w) ==
  LET act(x) ==
        CASE x.in.hook.kind = "dispenseCards" ->
               dispenseCards(x, x.in.hook.amount)
          [] x.in.hook.kind = "nextTurn" -> nextTurn(x, 0)
          [] x.in.hook.kind = "exit" ->
               [x EXCEPT !.flags4.gamesExit = TRUE,
                         !.currentDealState = "RESET_DEALR"]
          [] OTHER -> x
  IN  act([w EXCEPT !.dealLog.hookNow = TRUE])

\* recordUVThreshold: five cards are dealt one after the other
RECURSIVE recordUVThreshold(_, _)
recordUVThreshold(w, n) ==
  IF n = 0 \/ w.pc # "loop" THEN w
  ELSE recordUVThreshold(
         [dealSingleCard(w, 1) EXCEPT !.flags1.cardDealt = FALSE], n - 1)

numUVReadings == 5

\* uvSensorTuner: button 4 cancels the instructions (w.in.tool = "cancel"),
\* any other button starts the recording
uvSensorTuner(w) ==
  IF w.in.tool = "cancel"
  THEN updateDisplay([w EXCEPT !.flags4.toolsExit = TRUE,
                               !.currentDealState = "RESET_DEALR"])
  ELSE LET w1 == recordUVThreshold(w, numUVReadings)
       IN  updateDisplay([w1 EXCEPT !.flags3.insideDealrTools = FALSE,
                                    !.flags4.toolsExit = TRUE,
                                    !.currentDealState = "RESET_DEALR"])

\* colorTuner: button 4 cancels the instructions (w.in.tool = "cancel") or
\* the recording (w.in.tool = "cancelRecord"); the calibration recorded is
\* the one in force
colorTuner(w) ==
  IF w.in.tool = "cancel"
  THEN updateDisplay([w EXCEPT !.flags4.toolsExit = TRUE,
                               !.currentDealState = "RESET_DEALR"])
  ELSE LET w1 == [w EXCEPT !.flags4.toolsMenuActive = FALSE]
           w2 == IF w.in.tool = "cancelRecord"
                 THEN updateDisplay(
                        [w1 EXCEPT !.flags4.toolsExit = TRUE,
                                   !.currentDealState = "RESET_DEALR"])
                 ELSE w1
       IN  updateDisplay([w2 EXCEPT !.flags3.insideDealrTools = FALSE,
                                    !.currentDealState = "IDLE",
                                    !.flags4.toolsMenuActive = FALSE,
                                    !.currentDisplayState = "SELECT_GAME"])

\* Config.h: scrollInstructions is true
advanceMenu(w) ==
  CASE w.currentDisplayState \in
         {"INTRO_ANIM", "SCROLL_PLACE_TAGS_TEXT", "SCROLL_PICK_GAME_TEXT"} ->
         advanceMenuFromDisplay(w)
    [] w.currentDisplayState = "SCREENSAVER" ->
         [w EXCEPT !.flags2.blinkingAnimationActive = FALSE,
                   !.currentGame = 0,
                   !.currentDisplayState = "SCROLL_PLACE_TAGS_TEXT"]
    [] w.currentDisplayState = "SELECT_GAME" ->
         IF w.currentGame >= 0 /\ w.currentGame < totalGames
         THEN \* the game's initialize(): it asks for its rounds and starts
              [setDealAmount([w EXCEPT !.currentGamePtr = "game"],
                             w.game.rounds)
                 EXCEPT !.currentDisplayState = "DEAL_CARDS",
                        !.currentDealState = "DEALING",
                        !.dealLog = [NewDealLog EXCEPT
                                       !.hookNow = w.dealLog.hookNow,
                                       !.faults = w.dealLog.faults,
                                       !.presses = w.dealLog.presses]]
         ELSE IF w.currentGame = totalGames
         THEN [w EXCEPT !.currentGamePtr = "nullptr",
                        !.flags4.toolsMenuActive = TRUE,
                        !.currentDisplayState = "SELECT_TOOL",
                        !.currentToolsMenu = 0]
         ELSE [w EXCEPT !.currentGamePtr = "nullptr",
                        !.currentDisplayState = "ERROR",
                        !.currentDealState = "IDLE"]
    [] w.currentDisplayState = "SELECT_TOOL" ->
         LET t == IF ~w.flags4.toolsMenuActive THEN w
                  ELSE CASE w.currentToolsMenu = 0 ->
                         updateDisplay(
                           [w EXCEPT !.flags1.dealInitialized = TRUE,
                                     !.currentDealState = "DEALING",
                                     !.remainingRoundsToDeal = 0,
                                     !.currentDisplayState = "STRUGGLE"])
                    [] w.currentToolsMenu = 1 -> colorTuner(w)
                    [] w.currentToolsMenu = 2 -> uvSensorTuner(w)
                    [] w.currentToolsMenu = 3 ->
                         updateDisplay(
                           [updateDisplay(w) EXCEPT
                              !.flags4.fullExit = TRUE,
                              !.currentDealState = "RESET_DEALR"])
                    [] OTHER -> w
         IN  [t EXCEPT !.flags3.insideDealrTools = TRUE]
    [] w.currentDisplayState = "DEAL_CARDS" ->
         [w EXCEPT !.currentDealState = "DEALING"]
    [] OTHER -> w

startPreGameAnimation(w) ==
  IF /\ ~w.flags2.initialAnimationInProgress
     /\ ~w.flags2.initialAnimationComplete
  THEN [w EXCEPT !.currentDisplayState = "INTRO_ANIM",
                 !.flags2.initialAnimationInProgress = TRUE]
  ELSE w

goBack(w) ==
  CASE w.currentDisplayState = "DEAL_CARDS" ->
         [w EXCEPT !.currentDisplayState = "SELECT_GAME"]
    [] w.currentDisplayState = "SELECT_TOOL" ->
         [w EXCEPT !.flags4.toolsMenuActive = FALSE,
                   !.currentDisplayState = "SELECT_GAME"]
    [] w.currentDisplayState = "SELECT_GAME" ->
         [w EXCEPT !.currentGame = 0,
                   !.currentToolsMenu = 0,
                   !.flags4.toolsMenuActive = FALSE,
                   !.flags3.buttonInitialization = FALSE,
                   !.currentDisplayState = "SCROLL_PICK_GAME_TEXT",
                   !.flags2.blinkingAnimationActive = FALSE,
                   !.currentDealState = "IDLE"]
    [] w.currentDisplayState = "SCROLL_PICK_GAME_TEXT" ->
         startPreGameAnimation(
           [w EXCEPT !.flags3.buttonInitialization = FALSE,
                     !.currentDisplayState = "SCROLL_PLACE_TAGS_TEXT",
                     !.flags2.blinkingAnimationActive = FALSE])
    [] w.currentDisplayState \in {"SCROLL_PLACE_TAGS_TEXT", "INTRO_ANIM"} ->
         [w EXCEPT !.flags3.buttonInitialization = FALSE]
    [] w.currentDisplayState = "SCREENSAVER" -> advanceMenu(w)
    [] OTHER -> w

\* the selection counters are int8_t and stay within their menus
decreaseSetting(w) ==
  IF w.currentDisplayState = "SELECT_GAME"
  THEN [w EXCEPT !.currentGame = IF @ - 1 < 0 THEN totalGames ELSE @ - 1]
  ELSE IF w.currentDisplayState = "SELECT_TOOL"
  THEN [w EXCEPT !.currentToolsMenu =
                    IF @ - 1 < 0 THEN numToolMenus ELSE @ - 1]
  ELSE w

increaseSetting(w) ==
  IF w.currentDisplayState = "SELECT_GAME" /\ w.currentGame >= 0
  THEN [w EXCEPT !.currentGame = IF @ + 1 > totalGames THEN 0 ELSE @ + 1]
  ELSE IF w.currentDisplayState = "SELECT_TOOL" /\ w.currentToolsMenu >= 0
  THEN [w EXCEPT !.currentToolsMenu =
                    IF @ + 1 > numToolMenus THEN 0 ELSE @ + 1]
  ELSE w

exitButtonAction(w) ==
  IF w.currentDealState # "IDLE"
  THEN LET w1 == IF w.flags4.toolsMenuActive
                 THEN [w EXCEPT !.flags4.toolsExit = TRUE]
                 ELSE [w EXCEPT !.flags4.gamesExit = TRUE]
       IN  [flywheelOff(rotateStop(w1))
              EXCEPT !.currentDealState = "RESET_DEALR"]
  ELSE goBack(w)

ScrollDisplays ==
  {"SCREENSAVER", "SCROLL_PLACE_TAGS_TEXT", "SCROLL_PICK_GAME_TEXT"}

\* the game is handed the button in every deal state
onButton1Release_anyState(w) ==
  IF w.currentGamePtr # "nullptr" THEN handleButtonPress(w)
  ELSE advanceMenu(w)

onButton1Release(w) ==
  IF w.currentDealState = "AWAITING_PLAYER_DECISION"
  THEN IF w.currentGamePtr # "nullptr" THEN handleButtonPress(w) ELSE w
  ELSE advanceMenu(w)

onButton2Release(w) ==
  LET menu(x) ==
        IF x.currentDisplayState \in ScrollDisplays THEN advanceMenu(x)
        ELSE IF x.currentDisplayState \in {"SELECT_TOOL", "SELECT_GAME"}
             THEN increaseSetting(x)
             ELSE x
  IN  menu(IF /\ w.currentDealState = "AWAITING_PLAYER_DECISION"
              /\ w.currentGamePtr # "nullptr"
           THEN handleButtonPress(w)
           ELSE w)

onButton3Release(w) ==
  IF w.currentDealState = "AWAITING_PLAYER_DECISION"
  THEN IF w.currentGamePtr # "nullptr" THEN handleButtonPress(w) ELSE w
  ELSE IF w.currentDisplayState \in ScrollDisplays THEN advanceMenu(w)
  ELSE IF w.currentDisplayState = "SELECT_GAME" \/ w.currentDealState = "IDLE"
       THEN decreaseSetting(w)
       ELSE w

onButton4Release(w) ==
  IF w.currentDealState = "AWAITING_PLAYER_DECISION"
  THEN IF w.currentGamePtr # "nullptr" THEN handleButtonPress(w) ELSE w
  ELSE exitButtonAction(w)

\* the shortcut of the long presses of buttons 2, 3 and 4 to a tool
toolShortcut(w, tool) ==
  LET w1 == updateDisplay([setOverallTimeoutTag(w, w.now)
                             EXCEPT !.flags4.toolsMenuActive = TRUE,
                                    !.currentToolsMenu = tool,
                                    !.currentDisplayState = "SELECT_TOOL"])
  IN  [w1 EXCEPT !.flags3.buttonInitialization = TRUE,
                 !.flags2.blinkingAnimationActive = FALSE,
                 !.flags2.initialAnimationInProgress = FALSE]

onButton2LongPress(w) == toolShortcut(w, 1)

onButton3LongPress(w) == toolShortcut(w, 2)

onButton4LongPress(w) ==
  IF w.currentDealState = "AWAITING_PLAYER_DECISION"
  THEN exitButtonAction(w)
  ELSE toolShortcut(w, 0)

resetTagsOnButtonPress(w) ==
  [setOverallTimeoutTag(w, w.now)
     EXCEPT !.flags2.blinkingAnimationActive = FALSE]

\* checkButton once the release callback of a short press has returned
checkButtonReleased(w) ==
  IF w.currentDisplayState # "SCROLL_PLACE_TAGS_TEXT"
  THEN [w EXCEPT !.flags3.buttonInitialization = TRUE]
  ELSE w
(***************************************************************************)
(* SpecDeal: loop() over a turntable.  One step is checkState (a tick) or  *)
(* the handling of one button event by checkButtons; checkButtons looks at *)
(* buttons 1 to 4 in this order after every checkState.  checkTimeouts     *)
(* only starts the screensaver after 55 s without activity, which lies     *)
(* beyond the clock of the model.  Time passes between ticks of the        *)
(* scanning states, inside the fine adjustment and inside the dispensing   *)
(* pipeline; in the other states the passing of time changes nothing.      *)
(***************************************************************************)
\* the entries of the tools menu that leave the throw timeout to the
\* pipeline (0) and that make it raise the error latch (2)
DealToolsMenus == {0, 2}

\* The state in which advanceMenu, called by the release of button 1 on
\* SELECT_GAME, has just started the registered game: its initialize() has
\* asked for game.rounds rounds.  The menu steps before it move the display
\* and may have left currentToolsMenu on any entry; the table carries one
\* of the rings of tags.
InitDeal ==
  /\ flags1 = Flags1Boot
  /\ flags2 = Flags2Boot
  /\ flags3 = [Flags3Boot EXCEPT !.buttonInitialization = TRUE]
  /\ flags4 = Flags4Boot
  /\ flags5 = Flags5Boot
  /\ InitClassifierState
  /\ InitDispenseState
  /\ InitObserver
  /\ InitStoreLoaded
  /\ InitDealGlobals
  /\ blackBaseline \in ClassifierBaselines
  /\ currentDealState = "DEALING"
  /\ currentDisplayState = "DEAL_CARDS"
  /\ currentToolsMenu \in DealToolsMenus
  /\ \E t \in Tables : tags = t.tags /\ pos = t.pos
  /\ onTag = FALSE
  /\ game \in [rounds : 0 .. MaxRounds, flip : BOOLEAN]
  /\ currentGamePtr = "game"
  /\ initialRoundsToDeal = game.rounds
  /\ remainingRoundsToDeal = game.rounds
  /\ postCardsToDeal = 127
  /\ loopPos = 1

MaxDealClock == MaxDealTicks * ClockGrain

\* the observations of "the last step" start empty
StepStart(w) ==
  [w EXCEPT !.dealLog.confirmNow = 0,
            !.dealLog.primaryNow = FALSE,
            !.dealLog.dispensedNow = 0,
            !.dealLog.raisedNow = FALSE,
            !.dealLog.hookNow = FALSE,
            !.dealLog.reversedNow = FALSE,
            !.dealLog.turnedNow = FALSE,
            !.dealLog.blindNow = FALSE,
            !.dealLog.abortedNow = FALSE,
            !.dealLog.flipGapNow = FALSE,
            !.dealLog.flipBackNow = FALSE]

\* a step whose code does not return leaves the machine hung in the loop
\* that does not end
StepEnd(w0, w1, name) ==
  IF w1.hung \/ w1.pc # "loop"
  THEN /\ Commit([w1 EXCEPT !.hung = TRUE])
       /\ op' = name
  ELSE /\ w1.now <= MaxDealClock
       /\ w1.dealLog.faults <= MaxFaults
       /\ w1.dealLog.presses <= MaxPresses
       /\ Commit(w1)
       /\ op' = name

\* the case the switch of checkState is about to run
caseOf(w) == checkStateEnter(w).currentDealState

\* the worlds in which checkState may start when its switch is to run case h:
\* the time since the last tick, whether the table has turned into the next
\* zone, the duration of a fine adjustment and whether it gets to read a
\* tag at all, the behaviour of the card path, and whether a scrolling text
\* has reached its end
TickInputs(h, dts, arrivals, dtAdjs, losts, jams, texts) ==
  IF hung \/ caseOf(World) # h THEN {}
  ELSE { StepStart(
           [World EXCEPT
              !.now = @ + dt,
              !.loopPos = 0,
              !.textDone = t,
              !.dealLog.faults = IF dt > 0 THEN @ + 1 ELSE @,
              !.in = [arrive |-> a, dtAdj |-> da, lost |-> l, jam |-> j,
                      hook |-> [kind |-> "none", amount |-> 0],
                      tool |-> "done"]]) :
           dt \in dts, a \in arrivals, da \in dtAdjs, l \in losts,
           j \in jams, t \in texts }

\* checkState: "case IDLE: handleIdleState()"
TickIdle ==
  /\ \E w \in TickInputs("IDLE", {0}, {FALSE}, {0}, {FALSE}, {FALSE}, BOOLEAN) :
       StepEnd(w, handleIdleState(checkStateEnter(w)), "checkState")
  /\ UNCHANGED << sensorVars, storeVars, flip7 >>

\* checkState: "case DEALING: handleDealingState()"
TickDealing ==
  /\ \E w \in TickInputs("DEALING", TickElapse, BOOLEAN, AdjustElapse,
                         BOOLEAN, BOOLEAN, {FALSE}) :
       StepEnd(w, handleDealingState(checkStateEnter(w)), "checkState")
  /\ UNCHANGED << sensorVars, storeVars, flip7 >>

\* checkState: "case ADVANCING: handleAdvancingState()"
TickAdvancing ==
  /\ \E w \in TickInputs("ADVANCING", TickElapse, BOOLEAN, AdjustElapse,
                         BOOLEAN, BOOLEAN, {FALSE}) :
       StepEnd(w, handleAdvancingState(checkStateEnter(w)), "checkState")
  /\ UNCHANGED << sensorVars, storeVars, flip7 >>

\* checkState: "case AWAITING_PLAYER_DECISION: handleAwaitingPlayerDecision()"
TickAwaiting ==
  /\ \E w \in TickInputs("AWAITING_PLAYER_DECISION", {0}, {FALSE}, {0},
                         {FALSE}, {FALSE}, {FALSE}) :
       StepEnd(w, handleAwaitingPlayerDecision(checkStateEnter(w)),
               "checkState")
  /\ UNCHANGED << sensorVars, storeVars, flip7 >>

\* checkState: "case RESET_DEALR: handleResetDealrState()"
TickReset ==
  /\ \E w \in TickInputs("RESET_DEALR", {0}, {FALSE}, {0}, {FALSE}, {FALSE},
                         {FALSE}) :
       StepEnd(w, handleResetDealrState(checkStateEnter(w)), "checkState")
  /\ UNCHANGED << sensorVars, storeVars, flip7 >>

\* what the game may do with a button while a player decides
GameHooks ==
  { [kind |-> "none", amount |-> 0], [kind |-> "nextTurn", amount |-> 0],
    [kind |-> "exit", amount |-> 0] }
  \cup { [kind |-> "dispenseCards", amount |-> m] : m \in {1, MaxCards} }

HookChoices ==
  IF currentDealState = "AWAITING_PLAYER_DECISION" /\ currentGamePtr # "nullptr"
  THEN GameHooks
  ELSE { [kind |-> "none", amount |-> 0] }

\* how the user ends the instructions of a tuner
ToolChoices ==
  IF /\ currentDisplayState = "SELECT_TOOL"
     /\ flags4.toolsMenuActive
     /\ currentToolsMenu \in {1, 2}
  THEN {"done", "cancel", "cancelRecord"}
  ELSE {"done"}

\* the worlds in which the callback of button b may start: checkButtons
\* comes to button b after the buttons before it, and checkButton has
\* called resetTagsOnButtonPress
ButtonInputs(b) ==
  IF hung \/ loopPos >= b THEN {}
  ELSE { resetTagsOnButtonPress(
           StepStart(
             [World EXCEPT
                !.loopPos = b,
                !.dealLog.pressed = TRUE,
                !.dealLog.presses = @ + 1,
                !.in = [arrive |-> FALSE, dtAdj |-> 0, lost |-> FALSE,
                        jam |-> j,
                        hook |-> hk, tool |-> tl]])) :
           hk \in HookChoices, tl \in ToolChoices, j \in BOOLEAN }

Button1Release ==
  /\ \E w \in ButtonInputs(1) :
       StepEnd(w, checkButtonReleased(onButton1Release(w)),
               "onButton1Release")
  /\ UNCHANGED << sensorVars, storeVars, flip7 >>

Button2Release ==
  /\ \E w \in ButtonInputs(2) :
       StepEnd(w, checkButtonReleased(onButton2Release(w)),
               "onButton2Release")
  /\ UNCHANGED << sensorVars, storeVars, flip7 >>

Button3Release ==
  /\ \E w \in ButtonInputs(3) :
       StepEnd(w, checkButtonReleased(onButton3Release(w)),
               "onButton3Release")
  /\ UNCHANGED << sensorVars, storeVars, flip7 >>

Button4Release ==
  /\ \E w \in ButtonInputs(4) :
       StepEnd(w, checkButtonReleased(onButton4Release(w)),
               "onButton4Release")
  /\ UNCHANGED << sensorVars, storeVars, flip7 >>

Button2LongPress ==
  /\ \E w \in ButtonInputs(2) :
       StepEnd(w, onButton2LongPress(w), "onButton2LongPress")
  /\ UNCHANGED << sensorVars, storeVars, flip7 >>

Button3LongPress ==
  /\ \E w \in ButtonInputs(3) :
       StepEnd(w, onButton3LongPress(w), "onButton3LongPress")
  /\ UNCHANGED << sensorVars, storeVars, flip7 >>

Button4LongPress ==
  /\ \E w \in ButtonInputs(4) :
       StepEnd(w, onButton4LongPress(w), "onButton4LongPress")
  /\ UNCHANGED << sensorVars, storeVars, flip7 >>

NextDeal ==
  \/ TickIdle
  \/ TickDealing
  \/ TickAdvancing
  \/ TickAwaiting
  \/ TickReset
  \/ Button1Release
  \/ Button2Release
  \/ Button3Release
  \/ Button4Release
  \/ Button2LongPress
  \/ Button3LongPress
  \/ Button4LongPress

SpecDeal == InitDeal /\ [][NextDeal]_vars
(***************************************************************************)
(* SpecStore: the EEPROM, the colour table loaded from it and the tools    *)
(* that write it.  One step is setup() after a power cycle, the menu steps *)
(* that bring the operator to an entry of the tools menu, the release of   *)
(* button 1 on that entry (the tool runs inside the callback), or one      *)
(* answer of the operator to a prompt of recordColors, which blocks inside *)
(* colorTuner until the last identity is confirmed or button 4 is pressed. *)
(***************************************************************************)
MaxLaunches == 2

\* chips the firmware may be flashed onto: erased, zeroed, and zeroed with
\* a first byte that happens to equal the expected version
InitialChips ==
  { ErasedEEPROM,
    [a \in EepromCells |-> 0],
    [a \in EepromCells |-> IF a = EEPROM_VERSION_ADDR THEN EEPROM_VERSION
                           ELSE 0] }

\* the lighting of a tuning session
Lights == {1, 2}

\* newColor as recordColors and logBlackBaseline compute it from the samples
\* taken over the tag of identity i (0: the bare table) in lighting l: the
\* fields are uint8_t values
SensorReads(l, i) ==
  [r |-> (defaultColors[i].r + 7 * l) % Uint8Mod,
   g |-> (defaultColors[i].g + 250 * l) % Uint8Mod,
   b |-> (defaultColors[i].b + l) % Uint8Mod,
   avgC |-> defaultColors[i].avgC - l]

\* maxUV of recordUVThreshold: the largest of the analogRead values
UvReadings == {0, 300}

thresholdBuffer == 5

InitStore ==
  /\ InitFlags
  /\ InitClassifierState
  /\ InitDispenseState
  /\ InitObserver
  /\ InitDealState
  /\ InitNoTable
  /\ blackBaseline = 0
  /\ currentDealState = "IDLE"
  /\ currentDisplayState = "INTRO_ANIM"
  /\ currentToolsMenu = 0
  /\ EEPROM \in InitialChips
  /\ colors = [i \in 0 .. (TOTAL_COLORS - 1) |->
                 [r |-> 0, g |-> 0, b |-> 0, avgC |-> 0]]
  /\ storedUVThreshold = defaultUVThreshold
  /\ tuning = TuningOff
  /\ storeLog = NewStoreLog
  /\ flip7 = Flip7Initialize

\* the globals as their initialisers and setup() leave them
BootWorld ==
  [World EXCEPT
     !.flags1 = Flags1Boot, !.flags2 = Flags2Boot, !.flags3 = Flags3Boot,
     !.flags4 = Flags4Boot, !.flags5 = Flags5Boot,
     !.slideStep = 0, !.previousSlideStep = -1, !.amount = 0,
     !.cardInCraw = TRUE, !.previousCardInCraw = TRUE, !.throwStart = 0,
     !.retractStartTime = 0, !.retractStarted = FALSE,
     !.retractCompleted = FALSE, !.lastStepTime = 0,
     !.lastDebounceTime = 0, !.consecutiveDeals = 0,
     !.feedCard = FeedNeutral, !.flywheel = "off", !.now = 0,
     !.pc = "loop", !.dispenseLog = NewDispenseLog(0, 0),
     !.currentDealState = "IDLE", !.currentDisplayState = "INTRO_ANIM",
     !.currentToolsMenu = 0, !.currentGame = 0,
     !.currentGamePtr = "nullptr", !.loopPos = 4, !.hung = FALSE,
     !.dealLog = NewDealLog, !.tickLog = NewTickLog]

\* calculateBlackBaseline on the chip e: the statics hold cached and
\* isCalculated when it is called
calculateBlackBaseline(e, cached, isCalculated) ==
  IF ~isCalculated THEN readColorFromEEPROM(e, 0).avgC ELSE cached

\* setup(): initializeEEPROM, loadColorsFromEEPROM, calculateBlackBaseline
\* with its statics as the power cycle left them, and
\* loadStoredUVValueFromEEPROM.  isCalculated is true from here to the next
\* power cycle, so every later call returns the value cached here.
Setup ==
  /\ EEPROM' = initializeEEPROM(EEPROM)
  /\ colors' = loadColorsFromEEPROM(EEPROM')
  /\ blackBaseline' = calculateBlackBaseline(EEPROM', 0, FALSE)
  /\ storedUVThreshold' = EepromGet(EEPROM', UV_THRESHOLD_ADDR)
  /\ tuning' = TuningOff
  /\ storeLog' =
       [storeLog EXCEPT
          !.matched = (EEPROM[EEPROM_VERSION_ADDR] = EEPROM_VERSION),
          !.lastWrite = IF EEPROM[EEPROM_VERSION_ADDR] # EEPROM_VERSION
                        THEN defaultColors ELSE @]
  /\ Commit(BootWorld)
  /\ op' = "setup"
  /\ UNCHANGED << flip7, colorBuffer, bufferIndex, stableColorCount,
                  stableColor, rawC, closestColor, run, cSeq, flagSeq >>

\* loop(): the presses that bring the display from the intro to entry k of
\* the tools menu
ToolMenu ==
  /\ op # "init"
  /\ tuning.phase = "off"
  /\ storeLog.launches < MaxLaunches
  /\ \E k \in 1 .. 3 :
       Commit([BootWorld EXCEPT
                 !.currentDisplayState = "SELECT_TOOL",
                 !.flags2.initialAnimationComplete = TRUE,
                 !.flags3.buttonInitialization = TRUE,
                 !.flags4.toolsMenuActive = TRUE,
                 !.currentToolsMenu = k,
                 !.loopPos = 0])
  /\ storeLog' = [storeLog EXCEPT !.launches = @ + 1]
  /\ op' = "menu"
  /\ UNCHANGED << flip7, sensorVars, EEPROM, colors, storedUVThreshold,
                  tuning >>

\* advanceMenu on SELECT_TOOL for a tool that has returned when the callback
\* of button 1 returns: the colour tuner left with button 4 during its
\* instructions, the UV tuner, the reset to the defaults
ToolLaunch ==
  /\ op = "menu"
  /\ \E w \in ButtonInputs(1), uv \in UvReadings :
       /\ ~w.in.jam
       /\ w.in.tool \in {"done", "cancel"}
       /\ w.currentToolsMenu = 1 => w.in.tool = "cancel"
       /\ w.in.tool = "cancel" => uv = 0
       /\ w.currentToolsMenu = 3 => uv = 0
       /\ StepEnd(w, checkButtonReleased(onButton1Release(w)),
                  "onButton1Release")
       /\ EEPROM' =
            CASE w.currentToolsMenu = 2 /\ w.in.tool = "done" ->
                   EepromPut(EEPROM, UV_THRESHOLD_ADDR,
                             << uv + thresholdBuffer >>)
              [] w.currentToolsMenu = 3 -> resetEEPROMToDefaults(EEPROM)
              [] OTHER -> EEPROM
       /\ storeLog' =
            IF w.currentToolsMenu = 3
            THEN [storeLog EXCEPT !.lastWrite = defaultColors]
            ELSE storeLog
  /\ UNCHANGED << flip7, sensorVars, colors, storedUVThreshold, tuning >>

\* colorTuner up to the first prompt of recordColors(1): a button other
\* than button 4 ends the instructions and logBlackBaseline stores the
\* reading of the bare table
ColorTunerStart ==
  /\ op = "menu"
  /\ currentToolsMenu = 1
  /\ \E l \in Lights :
       /\ colors' = [colors EXCEPT ![0] = SensorReads(l, 0)]
       /\ EEPROM' = writeColorToEEPROM(EEPROM, 0, SensorReads(l, 0))
       /\ storeLog' = [storeLog EXCEPT !.lastWrite[0] = SensorReads(l, 0)]
       /\ tuning' = [phase |-> "waiting", i |-> 1, light |-> l]
  /\ op' = "colorTuner"
  /\ UNCHANGED << flip7, sensorVars, activeColor, flags2, flags5, dealrVars,
                  storedUVThreshold >>

\* recordColors: button 1 confirms the identity it prompts for; after the
\* last identity colorTuner reloads the table and leaves
RecordConfirm ==
  /\ tuning.phase = "waiting"
  /\ EEPROM' = writeColorToEEPROM(EEPROM, tuning.i,
                                  SensorReads(tuning.light, tuning.i))
  /\ storeLog' = [storeLog EXCEPT
                    !.lastWrite[tuning.i] =
                       SensorReads(tuning.light, tuning.i)]
  /\ IF tuning.i + 1 < TOTAL_COLORS
     THEN /\ colors' = [colors EXCEPT
                          ![tuning.i] = SensorReads(tuning.light, tuning.i)]
          /\ tuning' = [tuning EXCEPT !.i = @ + 1]
          /\ op' = "recordColors"
          /\ UNCHANGED << activeColor, flags2, flags5, dealrVars >>
     ELSE /\ colors' = loadColorsFromEEPROM(EEPROM')
          /\ tuning' = TuningOff
          /\ \E w \in ButtonInputs(1) :
               /\ ~w.in.jam
               /\ w.in.tool = "done"
               /\ StepEnd(w, checkButtonReleased(onButton1Release(w)),
                          "colorTuner")
  /\ UNCHANGED << flip7, sensorVars, storedUVThreshold >>

\* recordColors: button 4 pressed at the prompt; recordColors returns and
\* colorTuner runs on from the call
RecordBack ==
  /\ tuning.phase = "waiting"
  /\ colors' = loadColorsFromEEPROM(EEPROM)
  /\ tuning' = [TuningOff EXCEPT !.i = tuning.i]
  /\ \E w \in ButtonInputs(1) :
       /\ ~w.in.jam
       /\ w.in.tool = "cancelRecord"
       /\ StepEnd(w, checkButtonReleased(onButton1Release(w)),
                  "recordColorsBack")
  /\ UNCHANGED << flip7, sensorVars, EEPROM, storedUVThreshold, storeLog >>

NextStore ==
  \/ Setup
  \/ ToolMenu
  \/ ToolLaunch
  \/ ColorTunerStart
  \/ RecordConfirm
  \/ RecordBack

SpecStore == InitStore /\ [][NextStore]_vars


\* Flip7::handleButtonPress, case ENTERSCORE, GREEN
enterScoreGreen(f, found) ==
  LET entered == [f EXCEPT !.bust[f.currentPlayerIndex] = TRUE]
      declare(x, w) ==
        IF w = NoWinner THEN x
        ELSE LET moved == moveToPlayer([x EXCEPT !.winner = w], w, found)
             IN  IF moved.hung THEN moved
                 ELSE [moved EXCEPT !.gameState = "GAMEOVER"]
      close(x) == declare(x, checkForWinner(x))
  IN  IF ~f.isDisplayingSelection
      THEN IF NextUnbusted(f, (f.startPlayerIndex - 1 + f.numPlayers)
                                % f.numPlayers) = NoWinner
           THEN [f EXCEPT !.gameState = "REPORTSCORE", !.isAdjScore = FALSE]
           ELSE LET moved ==
                      moveToPlayer(f,
                        NextUnbusted(f, (f.startPlayerIndex - 1
                                         + f.numPlayers) % f.numPlayers),
                        found)
                IN  IF moved.hung THEN moved
                    ELSE [moved EXCEPT !.isDisplayingSelection = TRUE]
      ELSE IF NextUnbusted(entered, f.currentPlayerIndex) # NoWinner
           THEN moveToPlayer(entered,
                             NextUnbusted(entered, f.currentPlayerIndex),
                             found)
           ELSE close(tallyScores(
                        [entered EXCEPT !.isDisplayingSelection = FALSE,
                                        !.isAdjScore = FALSE,
                                        !.gameState = "REPORTSCORE"]))

\* Flip7::handleButtonPress for the states of the scoring; n is how many
\* times in a row the button is released while a score is entered, players
\* is what RegisterPlayers finds on the table
Flip7Press(f, button, n, players, found) ==
  CASE f.gameState = "STARTUP" ->
         CASE button = "RED" -> [f EXCEPT !.isDisplayingSelection = FALSE,
                                          !.exitRequested = TRUE]
           [] button = "YELLOW" ->
                [f EXCEPT !.ScoretoWin = IF @ = minScore THEN maxScore
                                         ELSE @ - 10,
                          !.isDisplayingSelection = TRUE]
           [] button = "BLUE" ->
                [f EXCEPT !.ScoretoWin = IF @ = maxScore THEN minScore
                                         ELSE @ + 10,
                          !.isDisplayingSelection = TRUE]
           [] OTHER ->
                [f EXCEPT !.gameState = "DEALSPECIAL",
                          !.numPlayers = players,
                          !.startPlayerIndex = 0,
                          !.currentPlayerIndex = 0,
                          !.isDisplayingSelection = FALSE,
                          !.isDealing = TRUE,
                          !.active = [i \in Players |-> i < players],
                          !.dealt = [i \in Players |-> i = 0]]
    [] f.gameState = "ENTERSCORE" ->
         CASE button = "RED" ->
                IF f.isAdjScore THEN [f EXCEPT !.adjSign = ~@] ELSE f
           [] button = "YELLOW" ->
                IF f.isDisplayingSelection THEN Repeat(f, n, TRUE) ELSE f
           [] button = "BLUE" ->
                IF f.isDisplayingSelection THEN Repeat(f, n, FALSE) ELSE f
           [] OTHER -> enterScoreGreen(f, found)
    [] f.gameState = "REPORTSCORE" ->
         CASE button = "RED" ->
                [f EXCEPT !.bust = [i \in Players |-> FALSE],
                          !.isDisplayingSelection = FALSE,
                          !.isAdjScore = TRUE,
                          !.adjSign = FALSE,
                          !.gameState = "ENTERSCORE"]
           [] button \in {"YELLOW", "BLUE"} ->
                [f EXCEPT !.isDisplayingSelection = FALSE,
                          !.prevState = "REPORTSCORE",
                          !.gameState = "SHOWSCORES"]
           [] OTHER ->
                LET started ==
                      [f EXCEPT !.bust = [i \in Players |-> FALSE],
                                !.active = [i \in Players |->
                                              i < f.numPlayers],
                                !.dealt = [i \in Players |-> FALSE],
                                !.stackPointer = -1,
                                !.pushed = [d \in Depths |-> NoWinner],
                                !.startPlayerIndex = (@ + 1) % f.numPlayers]
                    moved == moveToPlayer(started, started.startPlayerIndex,
                                          found)
                IN  IF moved.hung THEN moved
                    ELSE [dealOne(moved) EXCEPT !.isDealing = TRUE,
                                                !.gameState = "DEALSPECIAL"]
    [] f.gameState = "SHOWSCORES" ->
         CASE button = "RED" -> [f EXCEPT !.gameState = f.prevState,
                                          !.isDisplayingSelection = FALSE]
           [] button \in {"YELLOW", "BLUE"} ->
                [f EXCEPT !.isDisplayingSelection = TRUE]
           [] OTHER -> f
    [] f.gameState = "GAMEOVER" ->
         CASE button = "RED" -> [f EXCEPT !.isDisplayingSelection = FALSE,
                                          !.exitRequested = TRUE]
           [] button \in {"YELLOW", "BLUE"} ->
                [f EXCEPT !.isDisplayingSelection = FALSE,
                          !.prevState = "GAMEOVER",
                          !.gameState = "SHOWSCORES"]
           [] OTHER ->
                [Flip7Initialize EXCEPT
                   !.steps = f.steps,
                   !.rounds = f.rounds,
                   !.specialState = f.specialState,
                   !.displayedPlayerIndex = f.displayedPlayerIndex,
                   !.returnPlayerStack = f.returnPlayerStack]
    [] OTHER -> Flip7Play(f, button, found)

\* the game object as constructed, the core waiting for the players
InitFlip7 ==
  /\ InitFlags
  /\ InitStoreLoaded
  /\ InitClassifierState
  /\ InitDispenseState
  /\ InitObserver
  /\ InitDealState
  /\ InitNoTable
  /\ blackBaseline \in ClassifierBaselines
  /\ currentDealState = "AWAITING_PLAYER_DECISION"
  /\ currentDisplayState = "DEAL_CARDS"
  /\ currentToolsMenu = 0

\* one release of a button (or n in a row for the score buttons) while the
\* game awaits a decision
Flip7Button ==
  /\ ~flip7.hung
  /\ ~flip7.exitRequested
  /\ flip7.gameState \in {"STARTUP", "ENTERSCORE", "REPORTSCORE",
                          "SHOWSCORES", "GAMEOVER"}
  /\ \E button \in {"RED", "YELLOW", "BLUE", "GREEN"},
        n \in TenPresses \cup OnePresses,
        players \in 1 .. MaxPlayers,
        found \in BOOLEAN :
       /\ button = "YELLOW" /\ flip7.gameState = "ENTERSCORE"
            => n \in TenPresses
       /\ button = "BLUE" /\ flip7.gameState = "ENTERSCORE"
            => n \in OnePresses
       /\ ~(button \in {"YELLOW", "BLUE"} /\ flip7.gameState = "ENTERSCORE")
            => n = 1
       /\ ~(button = "GREEN" /\ flip7.gameState = "STARTUP") => players = 1
       /\ button # "GREEN" => flip7.steps < MaxScoreSteps
       /\ flip7' =
            [Flip7Press([flip7 EXCEPT !.tallied = FALSE,
                                      !.winner = NoWinner],
                        button, n, players, found)
               EXCEPT !.button = button,
                      !.steps = IF button # "GREEN" THEN @ + 1 ELSE @]
  /\ op' = "flip7Button"
  /\ UNCHANGED << sensorVars, activeColor, flags2, flags5, dealrVars,
                  storeVars >>

\* the play of one round, from the first card dealt to "END ROUND SCORING"
PlayRound ==
  /\ ~flip7.hung
  /\ flip7.gameState = "DEALSPECIAL"
  /\ flip7.rounds < MaxScoreRounds
  /\ \E busted \in SUBSET Players, at \in Players :
       /\ at < flip7.numPlayers
       /\ flip7' = [flip7 EXCEPT
                      !.gameState = "ENTERSCORE",
                      !.bust = [i \in Players |->
                                  i < flip7.numPlayers /\ i \in busted],
                      !.currentPlayerIndex = at,
                      !.isDisplayingSelection = FALSE,
                      !.tallied = FALSE,
                      !.winner = NoWinner,
                      !.button = "none",
                      !.rounds = @ + 1]
  /\ op' = "flip7Round"
  /\ UNCHANGED << sensorVars, activeColor, flags2, flags5, dealrVars,
                  storeVars >>

NextFlip7 ==
  \/ Flip7Button
  \/ PlayRound

SpecFlip7 == InitFlip7 /\ [][NextFlip7]_vars

(***************************************************************************)
(* SpecFlip3: the play of the rounds of FLIP7.  A step is one release of a *)
(* button while the game awaits a decision; the entering of the scores of  *)
(* a round is taken as a whole.  returnPlayerStack has no initialiser: the *)
(* object starts with any content in it.                                   *)
(***************************************************************************)
StackGarbage == {0, NoWinner}

InitFlip3 ==
  /\ InitFlags
  /\ InitStoreLoaded
  /\ InitClassifierState
  /\ InitDispenseState
  /\ InitObserver
  /\ InitDealState
  /\ InitNoTable
  /\ blackBaseline \in ClassifierBaselines
  /\ currentDealState = "AWAITING_PLAYER_DECISION"
  /\ currentDisplayState = "DEAL_CARDS"
  /\ currentToolsMenu = 0
  /\ \E g \in StackGarbage :
       flip7 = [Flip7Initialize EXCEPT
                  !.returnPlayerStack = [d \in Depths |-> g]]

\* STARTUP, GREEN: the players on the table are registered and the first
\* card is dealt
Flip3Start ==
  /\ flip7.gameState = "STARTUP"
  /\ \E players \in 1 .. MaxPlayers :
       flip7' = Flip7Press([flip7 EXCEPT !.pop = NoPop], "GREEN", 1,
                           players, TRUE)
  /\ op' = "flip3Start"
  /\ UNCHANGED << sensorVars, activeColor, flags2, flags5, dealrVars,
                  storeVars >>

\* one release of a button during the play
Flip3Button ==
  /\ ~flip7.hung
  /\ flip7.gameState \in {"DEALSPECIAL", "ACTION", "PICK", "PICKSPECIAL",
                          "PICKPLAYER"}
  /\ \E button \in {"RED", "YELLOW", "BLUE", "GREEN"}, found \in BOOLEAN :
       flip7' = Flip7Press([flip7 EXCEPT !.pop = NoPop], button, 1, 1,
                           found)
  /\ op' = "flip3Button"
  /\ UNCHANGED << sensorVars, activeColor, flags2, flags5, dealrVars,
                  storeVars >>

\* ENTERSCORE up to REPORTSCORE or GAMEOVER: the scores of the round are
\* entered; no branch of these states touches the return stack
Flip3Score ==
  /\ ~flip7.hung
  /\ flip7.gameState = "ENTERSCORE"
  /\ flip7.rounds < MaxScoreRounds
  /\ \E over \in BOOLEAN :
       flip7' = [flip7 EXCEPT
                   !.gameState = IF over THEN "GAMEOVER" ELSE "REPORTSCORE",
                   !.bust = [i \in Players |-> i < flip7.numPlayers],
                   !.isDisplayingSelection = FALSE,
                   !.pop = NoPop,
                   !.rounds = @ + 1]
  /\ op' = "flip3Score"
  /\ UNCHANGED << sensorVars, activeColor, flags2, flags5, dealrVars,
                  storeVars >>

\* REPORTSCORE, GREEN (the next round) and GAMEOVER, GREEN (a new game)
Flip3Next ==
  /\ ~flip7.hung
  /\ flip7.gameState \in {"REPORTSCORE", "GAMEOVER"}
  /\ \E found \in BOOLEAN :
       flip7' = Flip7Press([flip7 EXCEPT !.pop = NoPop], "GREEN", 1, 1,
                           found)
  /\ op' = "flip3Next"
  /\ UNCHANGED << sensorVars, activeColor, flags2, flags5, dealrVars,
                  storeVars >>

NextFlip3 ==
  \/ Flip3Start
  \/ Flip3Button
  \/ Flip3Score
  \/ Flip3Next

SpecFlip3 == InitFlip3 /\ [][NextFlip3]_vars

(***************************************************************************)
(* SpecLoops: the blocking loops of the core, each run from its first test *)
(* to its exit, on a turntable and with flags4.errorInProgress as the code *)
(* that runs before the loop may have left it.                             *)
(***************************************************************************)
MaxLoopRuns == 3

InitLoops ==
  /\ flags1 = [Flags1Boot EXCEPT !.dealInitialized = TRUE]
  /\ flags2 = Flags2Boot
  /\ flags3 = [Flags3Boot EXCEPT !.buttonInitialization = TRUE]
  /\ flags4 \in {[Flags4Boot EXCEPT !.errorInProgress = latch] :
                   latch \in BOOLEAN}
  /\ flags5 = Flags5Boot
  /\ InitClassifierState
  /\ InitDispenseState
  /\ InitObserver
  /\ InitStoreLoaded
  /\ InitDealGlobals
  /\ blackBaseline \in ClassifierBaselines
  /\ currentDealState = "DEALING"
  /\ currentDisplayState = "DEAL_CARDS"
  /\ currentToolsMenu \in DealToolsMenus
  /\ \E t \in Tables : tags = t.tags /\ pos = t.pos
  /\ onTag = FALSE
  /\ game = [rounds |-> 1, flip |-> FALSE]
  /\ currentGamePtr = "game"
  /\ initialRoundsToDeal = 1
  /\ remainingRoundsToDeal = 1
  /\ postCardsToDeal = 127
  /\ loopPos = 1

\* the worlds in which a loop may start: whether the fine adjustment gets
\* to read a tag, and the behaviour of the card path
LoopInputs ==
  IF hung \/ dealLog.loops >= MaxLoopRuns THEN {}
  ELSE { StepStart(
           [World EXCEPT
              !.loopPos = 0,
              !.dealLog.loops = @ + 1,
              !.in = [arrive |-> FALSE, dtAdj |-> 0, lost |-> l, jam |-> j,
                      hook |-> [kind |-> "none", amount |-> 0],
                      tool |-> "done"]]) :
           l \in BOOLEAN, j \in BOOLEAN }

\* fineAdjustCheck: "while (activeColor < 1) { ... }"
LoopFineAdjust ==
  /\ \E w \in LoopInputs :
       /\ ~w.in.jam
       /\ StepEnd(w, fineAdjustLoop(w), "fineAdjustLoop")
  /\ UNCHANGED << sensorVars, storeVars, flip7 >>

\* handleInitializingStateInAdjust: "while (activeColor != 0) { ... }"
LoopSkipTag ==
  /\ \E w \in LoopInputs :
       /\ ~w.in.jam /\ ~w.in.lost
       /\ StepEnd(w, scanUntilBackground(w, FALSE), "skipTagLoop")
  /\ UNCHANGED << sensorVars, storeVars, flip7 >>

LoopMoveOff ==
  /\ \E w \in LoopInputs, rotateClockwise \in BOOLEAN :
       /\ ~w.in.jam /\ ~w.in.lost
       /\ StepEnd(w, moveOffActiveColor(w, rotateClockwise),
                  "moveOffActiveColor")
  /\ UNCHANGED << sensorVars, storeVars, flip7 >>

LoopReturn ==
  /\ \E w \in LoopInputs, rotateClockwise \in BOOLEAN :
       /\ ~w.in.jam /\ ~w.in.lost
       /\ StepEnd(w, returnToActiveColor(w, rotateClockwise),
                  "returnToActiveColor")
  /\ UNCHANGED << sensorVars, storeVars, flip7 >>

\* handlePostDealGameplay: "while (activeColor < 2 && previousActiveColor
\* != 1) { ... }"
LoopPostDeal ==
  /\ \E w \in LoopInputs :
       /\ ~w.in.jam /\ ~w.in.lost
       /\ StepEnd(w, scanUntilPlayerTag(w), "postDealLoop")
  /\ UNCHANGED << sensorVars, storeVars, flip7 >>

\* handleAdvancingOnePlayer: "while (activeColor < 1) { ... }"
LoopOnePlayer ==
  /\ \E w \in LoopInputs :
       /\ ~w.in.jam /\ ~w.in.lost
       /\ StepEnd(w, scanUntilTag(w, TRUE), "onePlayerLoop")
  /\ UNCHANGED << sensorVars, storeVars, flip7 >>

\* dealSingleCard: "while (!flags1.cardDealt) { ... }"
LoopDispense ==
  /\ \E w \in LoopInputs :
       /\ ~w.in.lost
       /\ StepEnd(w, dealSingleCard([w EXCEPT !.flags1.cardDealt = FALSE], 1),
                  "dealSingleCard")
  /\ UNCHANGED << sensorVars, storeVars, flip7 >>

NextLoops ==
  \/ LoopFineAdjust
  \/ LoopSkipTag
  \/ LoopMoveOff
  \/ LoopReturn
  \/ LoopPostDeal
  \/ LoopOnePlayer
  \/ LoopDispense

SpecLoops == InitLoops /\ [][NextLoops]_vars
(***************************************************************************)
(* SpecIdle: loop() with its clock.  One pass of loop() is checkState,     *)
(* the callbacks of the button events checkButtons finds, and              *)
(* checkTimeouts; the quiet period of the screensaver passes between two   *)
(* passes.  The table carries no tags.                                     *)
(***************************************************************************)
\* Config.h: timeUntilScreensaverStart
timeUntilScreensaverStart == 55000

\* the clock of the idle model stops after MaxQuietPeriods quiet periods
MaxQuietPeriods == 2

\* the button events of one behaviour of the idle model
MaxQuietPresses == 2

MaxQuietClock == MaxQuietPeriods * timeUntilScreensaverStart + 2

\* time that passes between two passes of loop() (ms)
QuietElapse ==
  {0, timeUntilScreensaverStart, timeUntilScreensaverStart + 1}

\* the screensaver starts without waiting for the quiet period
checkTimeouts_noWait(w) ==
  IF /\ w.flags3.buttonInitialization
     /\ w.currentDealState = "IDLE"
     /\ ~w.flags3.insideDealrTools
  THEN updateDisplay(
         [w EXCEPT !.flags3.buttonInitialization = FALSE,
                   !.flags2.blinkingAnimationActive = TRUE,
                   !.currentDisplayState = "SCREENSAVER",
                   !.currentDealState = "IDLE",
                   !.timeouts.sleptNow = TRUE])
  ELSE w

checkTimeouts(w) ==
  LET currentTime == w.now
  IN  IF /\ w.flags3.buttonInitialization
         /\ w.currentDealState = "IDLE"
         /\ ~w.flags3.insideDealrTools
         /\ USub(currentTime, w.timeouts.overallTimeoutTag)
              > timeUntilScreensaverStart
      THEN updateDisplay(
             [w EXCEPT !.flags3.buttonInitialization = FALSE,
                       !.flags2.blinkingAnimationActive = TRUE,
                       !.currentDisplayState = "SCREENSAVER",
                       !.currentDealState = "IDLE",
                       !.timeouts.sleptNow = TRUE])
      ELSE w

\* the switch of checkState
checkStateSwitch(w) ==
  CASE w.currentDealState = "IDLE" -> handleIdleState(w)
    [] w.currentDealState = "INITIALIZING" -> initializeToRed(w)
    [] w.currentDealState = "DEALING" -> handleDealingState(w)
    [] w.currentDealState = "ADVANCING" -> handleAdvancingState(w)
    [] w.currentDealState = "AWAITING_PLAYER_DECISION" ->
         handleAwaitingPlayerDecision(w)
    [] w.currentDealState = "RESET_DEALR" -> handleResetDealrState(w)
    [] OTHER -> w

\* checkButton for button b: the callback of a release or of a long press
checkButton(w, b, long) ==
  CASE ~long /\ b = 1 -> checkButtonReleased(onButton1Release(w))
    [] ~long /\ b = 2 -> checkButtonReleased(onButton2Release(w))
    [] ~long /\ b = 3 -> checkButtonReleased(onButton3Release(w))
    [] ~long /\ b = 4 -> checkButtonReleased(onButton4Release(w))
    [] long /\ b = 2 -> onButton2LongPress(w)
    [] long /\ b = 3 -> onButton3LongPress(w)
    [] long /\ b = 4 -> onButton4LongPress(w)
    [] OTHER -> w

\* the state after setup(), the tag of the quiet period tracked
InitIdle ==
  /\ InitFlags
  /\ InitStoreLoaded
  /\ InitClassifierState
  /\ InitDispenseState
  /\ run = [id |-> 0, len |-> 0]
  /\ cSeq = << >>
  /\ flagSeq = << >>
  /\ op = "init"
  /\ timeouts = [TimeoutsOff EXCEPT !.tracked = TRUE]
  /\ InitDealState
  /\ InitNoTable
  /\ blackBaseline \in ClassifierBaselines
  /\ currentDealState = "IDLE"
  /\ currentDisplayState = "INTRO_ANIM"
  /\ currentToolsMenu = 0

\* the step is kept with the times the observer notes: of a button
\* callback, of a change of the deal state
QuietEnd(w1, name, pressed) ==
  LET w2 == [w1 EXCEPT
               !.timeouts.lastButton = IF pressed THEN w1.now ELSE @,
               !.timeouts.lastChange =
                  IF w1.currentDealState # currentDealState THEN w1.now
                  ELSE @]
  IN  IF w1.hung \/ w1.pc # "loop"
      THEN /\ Commit([w2 EXCEPT !.hung = TRUE])
           /\ op' = name
      ELSE /\ w1.now <= MaxQuietClock
           /\ w1.dealLog.presses <= MaxQuietPresses
           /\ Commit(w2)
           /\ op' = name

\* loop(): checkState, some time after the pass before
PassCheckState ==
  /\ ~hung
  /\ op \in {"init", "checkTimeouts"}
  /\ \E dt \in QuietElapse, t \in BOOLEAN :
       LET w == StepStart(
                  [World EXCEPT !.now = @ + dt,
                                !.loopPos = 0,
                                !.textDone = t,
                                !.timeouts.sleptNow = FALSE])
       IN  QuietEnd(checkStateSwitch(checkStateEnter(w)), "checkState",
                    FALSE)
  /\ UNCHANGED << sensorVars, storeVars, flip7 >>

\* loop(): checkButtons finds an event of button b
PassCheckButtons ==
  /\ \E b \in 1 .. 4, long \in BOOLEAN :
       \E w \in ButtonInputs(b) :
         /\ op \in {"checkState", "checkButtons"}
         /\ ~w.in.jam
         /\ QuietEnd(checkButton([w EXCEPT !.timeouts.sleptNow = FALSE],
                                 b, long),
                     "checkButtons", TRUE)
  /\ UNCHANGED << sensorVars, storeVars, flip7 >>

\* loop(): checkTimeouts
PassCheckTimeouts ==
  /\ ~hung
  /\ op \in {"checkState", "checkButtons"}
  /\ QuietEnd(checkTimeouts(
                StepStart([World EXCEPT !.timeouts.sleptNow = FALSE])),
              "checkTimeouts", FALSE)
  /\ UNCHANGED << sensorVars, storeVars, flip7 >>

NextIdle == PassCheckState \/ PassCheckButtons \/ PassCheckTimeouts

SpecIdle == InitIdle /\ [][NextIdle]_vars

(***************************************************************************)
(* SpecClassifier: the classifier fed with arbitrary samples while the     *)
(* orchestrator starts and ends fine adjustments                           *)
(***************************************************************************)
InitClassifier ==
  /\ InitDealr
  /\ blackBaseline \in ClassifierBaselines

\* one colorScan: colorRead on the sample the sensor delivers
ColorScanStep ==
  /\ \E rgb \in RawRGB, c \in Brightness : colorRead(rgb, c)
  /\ op' = "colorRead"
  /\ UNCHANGED << flags5, blackBaseline, cSeq, flagSeq, dealrVars, storeVars, flip7 >>

\* the orchestrator schedules a fine adjustment once the spike flag is up
\* (handleAdvancingState / initializeToRed)
AdjustStart ==
  /\ flags2.baselineExceeded /\ ~flags5.adjustInProgress
  /\ flags5' = [flags5 EXCEPT !.adjustInProgress = TRUE]
  /\ op' = "adjustStart"
  /\ UNCHANGED << sensorVars, activeColor, flags2, dealrVars, storeVars, flip7 >>

\* the fine adjustment ends (handleAdvancingStateInAdjust)
AdjustEnd ==
  /\ flags5.adjustInProgress
  /\ flags5' = [flags5 EXCEPT !.adjustInProgress = FALSE]
  /\ op' = "adjustEnd"
  /\ UNCHANGED << sensorVars, activeColor, flags2, dealrVars, storeVars, flip7 >>

NextClassifier == ColorScanStep \/ AdjustStart \/ AdjustEnd

SpecClassifier == InitClassifier /\ [][NextClassifier]_vars

(***************************************************************************)
(* SpecSpike: checkForColorSpike fed with a bounded brightness sequence    *)
(***************************************************************************)
InitSpike ==
  /\ InitDealr
  /\ blackBaseline \in Baselines

SpikeSample ==
  /\ Len(cSeq) < MaxSamples
  /\ \E c \in ScenarioBrightness :
       LET flag == checkForColorSpike(c, blackBaseline,
                                      flags2.baselineExceeded,
                                      flags5.adjustInProgress)
       IN  /\ flags2' = [flags2 EXCEPT !.baselineExceeded = flag]
           /\ rawC' = c
           /\ cSeq' = Append(cSeq, c)
           /\ flagSeq' = Append(flagSeq, flag)
  /\ op' = "checkForColorSpike"
  /\ UNCHANGED << colorBuffer, bufferIndex, stableColorCount, stableColor,
                  activeColor, flags5, blackBaseline, closestColor, run,
                  dealrVars, storeVars, flip7 >>

NextSpike == SpikeSample

SpecSpike == InitSpike /\ [][NextSpike]_vars

(***************************************************************************)
(* Claims on the dispensing pipeline                                       *)
(***************************************************************************)

\* C1 (as stated in the specification): flags1.cardDealt is true only at
\* the end of a dispensing operation during which pollCraw reported a
\* LOW-to-HIGH beam transition for each requested card; an operation ended
\* through the throw timeout never leaves cardDealt true.
C1_DealtOnlyAfterExits ==
  flags1.cardDealt =>
    /\ dispenseLog.beamExits >= dispenseLog.requested
    /\ ~dispenseLog.timedOut

\* an operation the throw timeout has not touched: its recovery has not run
\* and the error latch it raises on escalation is not set
Undisturbed == ~dispenseLog.timedOut /\ ~flags4.errorInProgress

\* C2: a dispensing operation for M >= 1 cards that is not ended by the
\* throw timeout completes after exactly M exits counted in slide step 0,
\* not fewer and not more, and only then runs steps 1, 2, 3 in that order.
C2_ExactlyRequestedExits ==
  Undisturbed =>
    /\ dispenseLog.exitsCounted <= dispenseLog.requested
    /\ dispenseLog.stepsRun \in {<< >>, <<1>>, <<1, 2>>, <<1, 2, 3>>}
    /\ dispenseLog.stepsRun # << >> =>
         dispenseLog.exitsCounted = dispenseLog.requested
    /\ pc = "returned" =>
         /\ dispenseLog.exitsCounted = dispenseLog.requested
         /\ dispenseLog.stepsRun = <<1, 2, 3>>
         /\ flags1.cardDealt

C2_Witness ==
  /\ pc = "returned"
  /\ ~dispenseLog.timedOut
  /\ dispenseLog.requested = MaxCards
  /\ dispenseLog.exitsCounted = MaxCards
  /\ dispenseLog.stepsRun = <<1, 2, 3>>
  /\ flags1.cardDealt

(***************************************************************************)
(* Claims on the classifier                                                *)
(***************************************************************************)

\* C6 (as stated in the specification): after a run of at least
\* debounceCount identical raw classifications c, activeColor equals c.
C6_ActiveAfterKIdentical ==
  run.len >= debounceCount => activeColor = run.id

\* C7: activeColor changes on a colorRead only if the debounceCount most
\* recent raw classifications, the current one included, are identical and
\* equal to the new value; hence without such a run it never changes.
C7_ChangeOnlyAfterRun ==
  [][ activeColor' # activeColor =>
        /\ op' = "colorRead"
        /\ run'.len >= debounceCount
        /\ run'.id = activeColor' ]_vars

C7_Witness ==
  /\ op = "colorRead"
  /\ activeColor = 1
  /\ run = [id |-> 1, len |-> 2 * debounceCount - 1]

\* C8: on a sample the spike flag rises only when the brightness is at or
\* above 1.6 x the background brightness and falls only when it is below;
\* a sample exactly at the threshold never clears a raised flag.
C8_SpikeHysteresis ==
  [][ op' = "colorRead" =>
        /\ (~flags2.baselineExceeded /\ flags2.baselineExceeded')
              => 10 * rawC' >= 16 * blackBaseline
        /\ (flags2.baselineExceeded /\ ~flags2.baselineExceeded')
              => 10 * rawC' < 16 * blackBaseline ]_vars

C8_Witness ==
  /\ op = "colorRead"
  /\ flags2.baselineExceeded
  /\ 10 * rawC = 16 * blackBaseline

\* the brightness sequence of the scenario and the two flag sequences
ScenarioSeq == << 10, 10, 62, 63, 64, 11, 10 >>

ScenarioFlagsStated == << FALSE, FALSE, TRUE, TRUE, TRUE, FALSE, FALSE >>

ScenarioFlagsCode == << FALSE, FALSE, FALSE, FALSE, TRUE, FALSE, FALSE >>

ScenarioRuns ==
  /\ blackBaseline = 40
  /\ ~flags5.adjustInProgress
  /\ cSeq = ScenarioSeq

\* C9 (as stated in the specification): the scenario yields the flags
\* false, false, true, true, true, false, false.
C9_ScenarioAsStated == ScenarioRuns => flagSeq = ScenarioFlagsStated

\* C9 (amended): the scenario yields false, false, false, false, true,
\* false, false: 62 and 63 are below the threshold 64.
C9_ScenarioAmended == ScenarioRuns => flagSeq = ScenarioFlagsCode

C9_Witness == ScenarioRuns /\ Len(flagSeq) = 7

(***************************************************************************)
(* Claims about the deal                                                   *)
(***************************************************************************)
\* the place of the reference tag on the ring t
RefIndex(t) == CHOOSE i \in 1 .. Len(t) : t[i] = 1

\* the ring carries the reference tag and the tag of a player
HasLeftOfDealer(t) ==
  /\ \E i \in 1 .. Len(t) : t[i] = 1
  /\ \E i \in 1 .. Len(t) : t[i] > 1

\* the identity that follows the reference tag clockwise
LeftOfDealer(t) == t[(RefIndex(t) % Len(t)) + 1]

\* this step confirms the left-of-dealer identity for the n-th time after
\* its first sighting
ReturnsNow(n) ==
  /\ HasLeftOfDealer(tags)
  /\ dealLog.confirms[LeftOfDealer(tags)] = n
  /\ dealLog'.confirms[LeftOfDealer(tags)] = n + 1

PostDealBegins == ~flags3.postDeal /\ flags3'.postDeal

\* C3: when the game asked for R >= 1 rounds and no button is touched
\* during the deal, a tick starts the post-deal exactly if it confirms the
\* left-of-dealer identity for the R-th time after its first sighting,
\* whatever ring of tags is on the table.
C3_PostDealAtRthReturn ==
  [][ (/\ game.rounds >= 1
       /\ currentGamePtr = "game"
       /\ op' = "checkState"
       /\ ~dealLog'.pressed)
      => (PostDealBegins <=> ReturnsNow(game.rounds)) ]_vars

C3_Witness ==
  /\ tags = <<1, 3, 2>>
  /\ game.rounds = MaxRounds
  /\ flags3.postDeal
  /\ ~dealLog.pressed
  /\ op = "checkState"
  /\ dealLog.confirmNow = 3
  /\ dealLog.confirms[3] = MaxRounds + 1

\* the scenario: the reference tag and the players 2, 5, 3, 7, two rounds,
\* no button touched and no card jammed
Scenario ==
  /\ tags = ScenarioRing
  /\ game.rounds = 2
  /\ currentGamePtr = "game"
  /\ ~dealLog'.pressed
  /\ dealLog.jams = 0

\* C4: in the scenario the post-deal begins with the second return to
\* identity 2, after exactly 10 successful dispenses: on each of the two
\* laps one card at each of the tags 2, 5, 3, 7 and one at the reference tag.
C4_TenDispenses ==
  [][ (Scenario /\ PostDealBegins)
      => (/\ dealLog.dispenses = 10
          /\ dealLog.exits = 10
          /\ dealLog'.confirmNow = 2
          /\ ReturnsNow(2)) ]_vars

\* C4 as stated: 8 successful dispenses
C4_AsStated ==
  [][ (Scenario /\ PostDealBegins)
      => (/\ dealLog.exits = 8
          /\ dealLog'.confirmNow = 2
          /\ ReturnsNow(2)) ]_vars

C4_Witness ==
  /\ tags = ScenarioRing
  /\ game.rounds = 2
  /\ ~dealLog.pressed
  /\ dealLog.jams = 0
  /\ flags3.postDeal
  /\ dealLog.confirmNow = 2
  /\ dealLog.exits = 10

\* the last step confirmed the reference tag right after the reference tag
RedTwice == dealLog.confirmNow = 1 /\ dealLog.prevConfirm = 1

\* C5: a confirmation of the reference tag that follows a confirmation of
\* the reference tag raises the missing-tag error when made in the primary
\* deal (error latch set, full exit requested) and raises nothing when made
\* in post-deal; from the error until handleResetDealrState has brought the
\* machine to IDLE no step runs a dispensing operation.
C5_MissingTagIsFatal ==
  [][ /\ (RedTwice /\ dealLog.primaryNow)'
          => (/\ dealLog'.raisedNow
              /\ flags4'.errorInProgress
              /\ flags4'.fullExit)
      /\ (RedTwice /\ ~dealLog.primaryNow)' => ~dealLog'.raisedNow
      /\ dealLog.fatal => dealLog'.dispensedNow = 0 ]_vars

C5_Witness ==
  /\ RedTwice
  /\ dealLog.primaryNow
  /\ dealLog.raisedNow
  /\ dealLog.fatal
  /\ flags4.errorInProgress
  /\ flags4.fullExit

\* C10: a tick that begins with the error latch set clears the latch, runs
\* the RESET_DEALR case of the switch and no other, confirms no tag,
\* dispenses nothing and ends in IDLE, whatever the deal state was.
C10_LatchBecomesReset ==
  [][ (op' = "checkState" /\ flags4.errorInProgress)
      => (/\ tickLog'.latchAtStart
          /\ tickLog'.stateAtStart = currentDealState
          /\ tickLog'.handler = "RESET_DEALR"
          /\ ~flags4'.errorInProgress
          /\ dealLog'.confirmNow = 0
          /\ dealLog'.dispensedNow = 0
          /\ currentDealState' = "IDLE") ]_vars

C10_Witness ==
  /\ op = "checkState"
  /\ tickLog.latchAtStart
  /\ tickLog.stateAtStart = "DEALING"
  /\ tickLog.handler = "RESET_DEALR"
  /\ currentDealState = "IDLE"

\* C11: every fatal condition a tick detects (the initialization deadline,
\* the fine-adjust deadline, the missing-tag condition) leaves the error
\* latch flags4.errorInProgress set.
C11_FatalSetsLatch ==
  [][ (/\ op' = "checkState"
       /\ (tickLog'.deadline # "none" \/ dealLog'.raisedNow))
      => flags4'.errorInProgress ]_vars

\* C12: a tick in which the fine adjustment exceeds its deadline returns
\* with all motion stopped and the deal state RESET_DEALR, from where the
\* next tick reaches IDLE.
C12_AdjustDeadlineStops ==
  [][ (op' = "checkState" /\ tickLog'.deadline = "adjust")
      => (/\ ~hung'
          /\ yaw' = "off"
          /\ currentDealState' = "RESET_DEALR") ]_vars

\* the tick runs initializeToRed and returns
SeeksReference ==
  /\ op' = "checkState"
  /\ ~hung'
  /\ tickLog'.handler = "DEALING"
  /\ ~flags3.postDeal
  /\ ~flags1.dealInitialized

C14_MainDealEndOnce ==
  [][ /\ (PostDealBegins /\ currentGamePtr = "game")
          => (dealLog.mainDealEnds = 0 /\ dealLog'.mainDealEnds = 1)
      /\ dealLog'.mainDealEnds <= 1 ]_vars

ReleaseCallbacks ==
  {"onButton1Release", "onButton2Release", "onButton3Release",
   "onButton4Release"}

\* C15: a step calls Game::_handleButtonPress exactly if it is the release
\* of a button dispatched while the deal state is AWAITING_PLAYER_DECISION
\* and a game is selected; a release dispatched in any other deal state, a
\* long press and a tick never reach the game.
C15_HookOnlyWhileAwaiting ==
  [][ dealLog'.hookNow
        <=> (/\ op' \in ReleaseCallbacks
             /\ ~hung
             /\ currentDealState = "AWAITING_PLAYER_DECISION"
             /\ currentGamePtr # "nullptr") ]_vars

C15_Witness ==
  /\ dealLog.hookNow
  /\ op = "onButton3Release"
  /\ dealLog.dispensedNow = 1

\* a tick whose handler is handleIdleState, and which returns
IdleTick == op' = "checkState" /\ tickLog'.handler = "IDLE" /\ ~hung'

\* C16: the IDLE tick that follows an entry into IDLE from another state,
\* and no other IDLE tick, runs the clearing; after it the flywheel is off,
\* the rotation is stopped and the per-deal context is cleared (initialized
\* flag, first-round and post-deal flags, post-deal card counter at its
\* start value, dealt flag, direction-correction flags); after every later
\* IDLE tick the rotation and the flywheel are off.
C16_IdleEntryClears ==
  [][ IdleTick =>
        /\ tickLog'.cleared <=> previousDealState # "IDLE"
        /\ flywheel' = "off"
        /\ yaw' = "off"
        /\ tickLog'.cleared =>
              /\ stopped'
              /\ ~flags2'.newDealState
              /\ ~flags1'.dealInitialized
              /\ ~flags1'.cardDealt
              /\ ~flags3'.postDeal
              /\ ~flags3'.notFirstRoundOfDeal
              /\ postCardsToDeal' = 52
              /\ ~flags1'.correctingCW
              /\ ~flags1'.correctingCCW ]_vars

\* a tick whose handler is handleResetDealrState
ResetTick == op' = "checkState" /\ tickLog'.handler = "RESET_DEALR"

\* C17: a RESET tick returns with the deal state IDLE and the context flags
\* cleared, and the screen it leaves is the destination of each exit flag
\* that was set when handleResetDealrState began: the place-tags screen for
\* fullExit, SELECT_GAME for gamesExit, SELECT_TOOL for toolsExit.
C17_ResetDispatch ==
  [][ ResetTick =>
        /\ ~hung'
        /\ currentDealState' = "IDLE"
        /\ currentGamePtr' = "nullptr"
        /\ ~flags1'.dealInitialized
        /\ ~flags1'.cardDealt
        /\ ~flags3'.postDeal
        /\ ~flags3'.gameOver
        /\ ~flags4'.errorInProgress
        /\ remainingRoundsToDeal' = 0
        /\ tickLog'.exits # {}
        /\ "fullExit" \in tickLog'.exits
              => currentDisplayState' = "SCROLL_PLACE_TAGS_TEXT"
        /\ "gamesExit" \in tickLog'.exits
              => currentDisplayState' = "SELECT_GAME"
        /\ "toolsExit" \in tickLog'.exits
              => currentDisplayState' = "SELECT_TOOL" ]_vars

\* the entries of the colour table
ColorIndexes == 0 .. (TOTAL_COLORS - 1)

\* the bytes of the EEPROM that hold entry i of the table
ColorCells(i) == (i * SizeofRGBColor + 1) .. (i * SizeofRGBColor + SizeofRGBColor)

\* C18: a setup() that finds the expected version byte loads into every
\* entry of the colour table the value last handed to writeColorToEEPROM
\* for it, whatever was written to other entries or to the UV threshold in
\* between; and a write of centroid tuning changes no byte outside the
\* cells of its entry: not the version byte, not another entry, not the
\* threshold.
C18_CentroidSurvivesReboot ==
  [][ /\ (op' = "setup" /\ EEPROM[EEPROM_VERSION_ADDR] = EEPROM_VERSION)
           => \A i \in ColorIndexes :
                storeLog.lastWrite[i] # NoColor
                  => colors'[i] = storeLog.lastWrite[i]
      /\ (tuning.phase = "waiting" /\ op' \in {"recordColors", "colorTuner"})
           => /\ readColorFromEEPROM(EEPROM', tuning.i)
                   = SensorReads(tuning.light, tuning.i)
              /\ \A a \in EepromCells \ ColorCells(tuning.i) :
                   EEPROM'[a] = EEPROM[a] ]_vars

C18_Witness ==
  /\ op = "setup"
  /\ storeLog.matched
  /\ colors[1] = SensorReads(2, 1)
  /\ colors[2] = defaultColors[2]
  /\ storedUVThreshold = 300 + thresholdBuffer

\* C19: a setup() that finds another version byte than the expected one
\* leaves every entry of the table and the UV threshold in the EEPROM at
\* its default, sets the version byte, and loads the defaults; a setup()
\* that finds the expected version byte leaves the EEPROM as it is.
C19_BootRestoresDefaults ==
  [][ op' = "setup" =>
        IF EEPROM[EEPROM_VERSION_ADDR] # EEPROM_VERSION
        THEN /\ \A i \in ColorIndexes :
                  readColorFromEEPROM(EEPROM', i) = defaultColors[i]
             /\ EepromGet(EEPROM', UV_THRESHOLD_ADDR) = defaultUVThreshold
             /\ EEPROM'[EEPROM_VERSION_ADDR] = EEPROM_VERSION
             /\ colors' = defaultColors
             /\ storedUVThreshold' = defaultUVThreshold
        ELSE EEPROM' = EEPROM ]_vars

C19_Witness ==
  /\ op = "setup"
  /\ ~storeLog.matched
  /\ EEPROM[EEPROM_VERSION_ADDR] = EEPROM_VERSION
  /\ colors = defaultColors

\* C20: button 4 at the prompt for identity i of recordColors leaves the
\* entries i and later of the table as they are, in the EEPROM and in
\* memory, and the tuner ends as a cancellation: the exit to the tools menu
\* is requested through RESET_DEALR and the tuner does not leave to the
\* games menu as after a completed tuning.
C20_BackCancelsTuning ==
  [][ op' = "recordColorsBack" =>
        /\ \A j \in tuning.i .. (TOTAL_COLORS - 1) :
             /\ colors'[j] = colors[j]
             /\ readColorFromEEPROM(EEPROM', j) = readColorFromEEPROM(EEPROM, j)
        /\ flags4'.toolsExit
        /\ currentDealState' = "RESET_DEALR"
        /\ currentDisplayState' # "SELECT_GAME" ]_vars

\* the operations that store calibration data: the boot on a version
\* mismatch, the colour tuner (logBlackBaseline, recordColors) and the UV
\* tuner (entry 2 of the tools menu)
BootOrTunerWrites ==
  \/ op' = "setup" /\ EEPROM[EEPROM_VERSION_ADDR] # EEPROM_VERSION
  \/ op' \in {"colorTuner", "recordColors"}
  \/ op' = "onButton1Release" /\ currentToolsMenu = 2

\* C21 as stated: the EEPROM is written only by the boot on a version
\* mismatch and by the two tuners; every other operation leaves it as it is.
C21_AsStated ==
  [][ EEPROM' # EEPROM => BootOrTunerWrites ]_vars

\* C21: the EEPROM is written only by the boot on a version mismatch, by the
\* two tuners and by entry 3 of the tools menu (the reset to the defaults);
\* every other operation leaves it as it is.
C21_OnlyBootAndTools ==
  [][ EEPROM' # EEPROM =>
        \/ BootOrTunerWrites
        \/ op' = "onButton1Release" /\ currentToolsMenu = 3 ]_vars

C21_Witness ==
  /\ op = "onButton1Release"
  /\ currentToolsMenu = 3
  /\ storeLog.matched
  /\ \A i \in ColorIndexes : readColorFromEEPROM(EEPROM, i) = defaultColors[i]
  /\ colors[1] = SensorReads(1, 1)

\* the registered players of the game
Registered(f) == {i \in Players : i < f.numPlayers}

C23_StopBeforeReverse ==
  [][ ~dealLog'.reversedNow ]_vars

C23_Witness ==
  /\ dealLog.turnedNow
  /\ ~dealLog.reversedNow
  /\ dealLog.confirmNow # 0
  /\ yaw = "off"

LoopOps ==
  {"fineAdjustLoop", "skipTagLoop", "moveOffActiveColor",
   "returnToActiveColor", "postDealLoop", "onePlayerLoop", "dealSingleCard"}

DealingTick == op' = "checkState" /\ tickLog'.handler = "DEALING" /\ ~hung'

C26_InitializedOnReference ==
  [][ /\ (~flags4.toolsMenuActive /\ ~flags1.dealInitialized
             /\ flags1'.dealInitialized)
          => dealLog'.confirmNow = 1
      /\ (op' = "checkState" /\ ~hung' /\ ~flags1.dealInitialized
             /\ dealLog'.confirmNow > 1)
          => /\ ~flags1'.dealInitialized
             /\ dealLog'.dispensedNow = 0
             /\ (yaw' = "ccw" \/ tickLog'.deadline = "init")
      /\ (op' = "checkState" /\ ~flags1.dealInitialized
             /\ flags1'.dealInitialized)
          => currentDealState' = "ADVANCING" ]_vars

\* the deal state leaves AWAITING_PLAYER_DECISION in this step
LeavesAwaiting ==
  /\ currentDealState = "AWAITING_PLAYER_DECISION"
  /\ currentDealState' # "AWAITING_PLAYER_DECISION"

\* a tick of checkState taken while a player decides
AwaitingTick ==
  /\ op' = "checkState"
  /\ currentDealState = "AWAITING_PLAYER_DECISION"

\* C27: while the deal state is AWAITING_PLAYER_DECISION a tick of the core
\* changes neither the rotation nor the flywheel, and the deal state leaves
\* AWAITING_PLAYER_DECISION only in a step in which the game was handed a
\* button, or in the tick that serves a game-over.
C27_LeftOnlyByGame ==
  [][ /\ AwaitingTick => (yaw' = yaw /\ flywheel' = flywheel)
      /\ LeavesAwaiting
          => \/ dealLog'.hookNow
             \/ op' = "checkState" /\ flags3.gameOver ]_vars

\* C27 (as amended): the handler of AWAITING_PLAYER_DECISION changes neither
\* the rotation, the flywheel, the feed nor the deal state and dispenses
\* nothing; the deal state leaves AWAITING_PLAYER_DECISION only in a step in
\* which the game was handed a button, in the long press of button 4 (the
\* exit of the operator), or in a tick that found a game-over or the error
\* latch set and served it before its handler.
C27_LeftByGameExitOrLatch ==
  [][ /\ (AwaitingTick /\ tickLog'.handler = "AWAITING_PLAYER_DECISION")
          => /\ currentDealState' = "AWAITING_PLAYER_DECISION"
             /\ yaw' = yaw /\ yaw = "off"
             /\ flywheel' = flywheel /\ flywheel = "off"
             /\ feedCard' = feedCard
             /\ dealLog'.dispensedNow = 0
      /\ LeavesAwaiting
          => \/ dealLog'.hookNow
             \/ op' = "onButton4LongPress"
             \/ op' = "checkState"
                  /\ (flags3.gameOver \/ flags4.errorInProgress) ]_vars

\* the tick that serves the error latch a dispense of the game has raised
\* has left AWAITING_PLAYER_DECISION
C27_Witness ==
  /\ op = "checkState"
  /\ tickLog.stateAtStart = "AWAITING_PLAYER_DECISION"
  /\ tickLog.latchAtStart
  /\ tickLog.handler = "RESET_DEALR"
  /\ currentDealState # "AWAITING_PLAYER_DECISION"

\* the retract of a throw starts, and ends, in this step
RetractStarts == ~retractStarted /\ retractStarted'
RetractEnds == retractStarted /\ ~retractStarted'

\* an iteration of the dispensing loop in an operation that has observed
\* no card exit
NoExitIteration ==
  /\ op' = "cardDispensingActions"
  /\ dispenseLog'.beamExits = 0

C29_AtMostThreeChained ==
  [][ /\ dealLog'.dispensedNow <= 3
      /\ (op' = "dealSingleCard" /\ consecutiveDeals >= 3)
          => /\ dealLog'.dispensedNow = 0
             /\ consecutiveDeals' = 0
             /\ currentDealState' = "ADVANCING" ]_vars

\* C30: checkTimeouts starts the screensaver only in a step that began
\* with the deal state IDLE and no tool running, more than
\* timeUntilScreensaverStart after the last button callback and after the
\* last step that changed the deal state; the step leaves the deal state
\* IDLE and the display on SCREENSAVER; every button callback, and every
\* checkState that finds the deal state changed, restarts the quiet period.
C30_ScreensaverAfterQuiet ==
  [][ /\ timeouts'.sleptNow
          => /\ op' = "checkTimeouts"
             /\ currentDealState = "IDLE"
             /\ ~flags3.insideDealrTools
             /\ now' - timeouts.lastButton > timeUntilScreensaverStart
             /\ now' - timeouts.lastChange > timeUntilScreensaverStart
             /\ currentDealState' = "IDLE"
             /\ currentDisplayState' = "SCREENSAVER"
      /\ (currentDisplayState' = "SCREENSAVER"
             /\ currentDisplayState # "SCREENSAVER"
             /\ op' = "checkTimeouts")
          => timeouts'.sleptNow
      /\ op' = "checkButtons"
          => timeouts'.overallTimeoutTag = now'
      /\ (op' = "checkState" /\ currentDealState # previousDealState)
          => timeouts'.overallTimeoutTag >= tickLog'.startedAt ]_vars

\* the screensaver has started one millisecond after the quiet period that
\* followed a button callback
C30_Witness ==
  /\ timeouts.sleptNow
  /\ op = "checkTimeouts"
  /\ currentDisplayState = "SCREENSAVER"
  /\ currentDealState = "IDLE"
  /\ dealLog.presses > 0
  /\ now - timeouts.lastButton = timeUntilScreensaverStart + 1

EntersAwaiting ==
  /\ currentDealState # "AWAITING_PLAYER_DECISION"
  /\ currentDealState' = "AWAITING_PLAYER_DECISION"

ResetPending ==
  /\ op = "checkState"
  /\ tickLog.deadline # "none"
  /\ tickLog.handler # "RESET_DEALR"

\* C32: a tick that finds the fine-adjust or the initialization deadline
\* exceeded ends with the deal state RESET_DEALR, without having set the
\* initialized flag and without having dispensed a card; and the step that
\* follows it is the tick of the RESET handler, or a button event that
\* neither moves the deal state to DEALING, ADVANCING or
\* AWAITING_PLAYER_DECISION, nor sets the initialized flag, nor dispenses.
C32_TimeoutHoldsUntilReset ==
  [][ /\ (op' = "checkState" /\ ~hung' /\ tickLog'.deadline # "none")
          => /\ currentDealState' = "RESET_DEALR"
             /\ flags1'.dealInitialized => flags1.dealInitialized
             /\ dealLog'.dispensedNow = 0
      /\ (ResetPending /\ currentDealState = "RESET_DEALR")
          => \/ op' = "checkState" /\ tickLog'.handler = "RESET_DEALR"
             \/ /\ op' # "checkState"
                /\ currentDealState' \notin
                      {"DEALING", "ADVANCING", "AWAITING_PLAYER_DECISION"}
                /\ flags1'.dealInitialized => flags1.dealInitialized
                /\ dealLog'.dispensedNow = 0 ]_vars

\* C33: an iteration of the dispensing loop starts or ends a retract only
\* in an operation that has recorded its own throwStart and only when at
\* least throwExpiration has really passed since that throwStart.
C33_RecoveryOnlyAfterExpiration ==
  [][ (op' = "cardDispensingActions" /\ (RetractStarts \/ RetractEnds))
      => /\ throwStart' >= dispenseLog'.startedAt
         /\ now' - throwStart' >= throwExpiration ]_vars

\* C34: the motion flags agree with the yaw motor: rotatingCW and
\* rotatingCCW are never both set, stopped is set exactly when neither is,
\* and while stopped is set the outputs of the yaw motor are off.
C34_FlagsAgreeWithMotor ==
  /\ ~(flags1.rotatingCW /\ flags1.rotatingCCW)
  /\ stopped <=> (~flags1.rotatingCW /\ ~flags1.rotatingCCW)
  /\ stopped => yaw = "off"

\* C35: in a game that asked for R >= 1 rounds, with no button touched and
\* no throw timed out, at the step that begins the post-deal every tag of
\* the ring, the reference tag included, has had exactly R cards leave the
\* dealer while the sensor stood on it, and no card has left it elsewhere.
C35_EveryTagDealtR ==
  [][ (/\ game.rounds >= 1
       /\ currentGamePtr = "game"
       /\ PostDealBegins
       /\ ~dealLog'.pressed
       /\ dealLog.jams = 0)
      => /\ \A i \in 1 .. Len(tags) : dealLog.dealtAt[i] = game.rounds
         /\ dealLog.dealtOff = 0 ]_vars

\* the post-deal of a two-round game on the ring of the scenario has begun
\* with two cards dealt at each of its five tags
C35_Witness ==
  /\ tags = ScenarioRing
  /\ game.rounds = 2
  /\ flags3.postDeal
  /\ op = "checkState"
  /\ dealLog.mainDealEnds = 1
  /\ dealLog.confirmNow = 2
  /\ ~dealLog.pressed
  /\ dealLog.jams = 0
  /\ \A i \in 1 .. Len(tags) : dealLog.dealtAt[i] = 2

\* C36: the loop of dealSingleCard goes on after an iteration only while
\* the throw is within throwExpiration of its start or a retract is within
\* retractDuration of its start, so that it ends once the clock has passed
\* both; and the iteration after which dealSingleCard returns leaves
\* cardDealt or the error latch set, the flywheel off and the feed actuator
\* in neutral.
C36_DispenseTerminatesClean ==
  [][ op' = "cardDispensingActions"
      => /\ pc' = "dispensing"
            => \/ now' - throwStart' < throwExpiration
               \/ /\ retractStarted'
                  /\ now' - retractStartTime' < retractDuration
         /\ pc' = "returned"
            => /\ flags1'.cardDealt \/ flags4'.errorInProgress
               /\ flywheel' = "off"
               /\ feedCard' = FeedNeutral ]_vars

\* C37: at the end of a tick that leaves the deal state IDLE none of the
\* exit flags fullExit, gamesExit, toolsExit is set.
C37_IdleHasNoExitFlag ==
  (op = "checkState" /\ currentDealState = "IDLE")
    => (~flags4.fullExit /\ ~flags4.gamesExit /\ ~flags4.toolsExit)

\* C38: whenever setup has run and no tuning session is in progress, every
\* entry of the in-memory colour table equals the centroid the EEPROM holds
\* for that identity, and the background brightness that checkForColorSpike
\* compares against equals the brightness the EEPROM holds for identity 0.
C38_MemoryFollowsStore ==
  (op # "init" /\ tuning.phase = "off") =>
    /\ \A i \in 0 .. (TOTAL_COLORS - 1) :
         colors[i] = readColorFromEEPROM(EEPROM, i)
    /\ blackBaseline = readColorFromEEPROM(EEPROM, 0).avgC

\* C39: the stack pointer of the FLIP3 return stack is always between -1
\* and MAX_FLIP3_DEPTH - 1; every index up to the stack pointer, the only
\* ones a pop reads, holds the player pushed at that depth; and a pop reads
\* an index that was pushed, gets the player pushed at that depth and leaves
\* the machine at that player when moveToPlayer returns.
C39_ReturnStackSound ==
  /\ flip7.stackPointer \in -1 .. (MAX_FLIP3_DEPTH - 1)
  /\ \A d \in 0 .. flip7.stackPointer :
       /\ flip7.pushed[d] # NoWinner
       /\ flip7.returnPlayerStack[d] = flip7.pushed[d]
  /\ flip7.pop.depth # -1 =>
       /\ flip7.pop.depth \in Depths
       /\ flip7.pop.pushed # NoWinner
       /\ flip7.pop.read = flip7.pop.pushed
       /\ flip7.stackPointer = flip7.pop.depth - 1
       /\ ~flip7.hung => flip7.pop.arrived = flip7.pop.pushed

\* a pop at the deepest level of a full stack has returned to a player
\* other than the one the FLIP3 was played on
C39_Witness ==
  /\ op = "flip3Button"
  /\ flip7.pop.depth = MAX_FLIP3_DEPTH - 1
  /\ ~flip7.hung
  /\ flip7.gameState = "PICK"
  /\ flip7.currentPlayerIndex = flip7.pop.pushed
  /\ flip7.currentPlayerIndex # flip7.displayedPlayerIndex
====
